---- MODULE Spec2Model ----
(***************************************************************************)
(* Model of the TrafficMonitor IP plugin's address engine:                 *)
(*   - GetInternalIPv4 (src/src/ip_utils.cpp), the local address selector; *)
(*   - GetExternalIPv4WithCountry (src/src/ip_utils.cpp), the external     *)
(*     lookup with its process-wide cache, called by concurrent threads;   *)
(*   - the stateless helpers GetIPPriority, ExtractJsonField,              *)
(*     GetCompanyName (src/src/ip_utils.h) and the display text of         *)
(*     IpTextProvider::GetText and IpPluginItem::Update, each applied      *)
(*     once to an input drawn from a bounded set (SpecPure);               *)
(*   - TMIpPlugin (src/src/plugin.cpp): the host's commands and its        *)
(*     DataRequired ticks, which call the external lookup (SpecPlugin).    *)
(* Strings are sequences of one-character strings; a local IPv4 string is  *)
(* the sequence of its four octets (what WSAAddressToStringW prints).      *)
(* Time is the steady clock in units of one hour.                          *)
(***************************************************************************)
EXTENDS Integers, Sequences, FiniteSets, TLC

(* ------------------------------ bounds --------------------------------- *)
\* Last instant of the steady clock that the model explores.
MaxTime == 3
\* Largest adaptive_cycles value a caller passes.
MaxCycles == 1

\* The threads that call GetExternalIPv4WithCountry concurrently, and the
\* one thread of the sequential specification.
Threads == {1, 2}
SeqThreads == {1}
NoThread == 0

(* --------------------------- program constants ------------------------- *)
\* std::chrono::hours(1) in clock units (one unit is one hour).
OneHour == 1

(* ------------------------------ strings -------------------------------- *)
EmptyStr == <<>>

\* std::string::find(pat, from): least 1-based index >= from where pat
\* occurs in s, 0 for npos.
RECURSIVE FindFrom(_, _, _)
FindFrom(s, pat, from) ==
    IF from + Len(pat) - 1 > Len(s) THEN 0
    ELSE IF SubSeq(s, from, from + Len(pat) - 1) = pat THEN from
    ELSE FindFrom(s, pat, from + 1)

\* The skipping loop with the colon as the only separator.
RECURSIVE SkipColons(_, _)
SkipColons(s, i) ==
    IF i <= Len(s) /\ s[i] = ":" THEN SkipColons(s, i + 1)
    ELSE i

\* The while loop of ExtractJsonField that skips ':', ' ' and '\t'.
RECURSIVE SkipSeparators(_, _)
SkipSeparators(s, i) ==
    IF i <= Len(s) /\ s[i] \in {":", " ", "\t"} THEN SkipSeparators(s, i + 1)
    ELSE i

ExtractJsonField(json, field) ==
    LET pattern == <<"\"">> \o field \o <<"\"">>
        found   == FindFrom(json, pattern, 1)
    IN  IF found = 0 THEN EmptyStr
        ELSE LET start == SkipSeparators(json, found + Len(pattern))
             IN  IF start > Len(json) \/ json[start] # "\"" THEN EmptyStr
                 ELSE LET end == FindFrom(json, <<"\"">>, start + 1)
                      IN  IF end = 0 THEN EmptyStr
                          ELSE SubSeq(json, start + 1, end - 1)

\* MultiByteToWideChar(CP_UTF8) on ASCII text: one wide unit per byte; an
\* empty input gives wlen = 0 and leaves the target field empty.
ToWide(s) == [i \in 1..Len(s) |-> s[i]]

(* ------------------------- local address selector ---------------------- *)
\* A 32-bit host-order IPv4 value, kept as its two 16-bit halves (the model
\* checker's integers are 32-bit signed).
Addr(a, b, c, d) == [hi |-> a * 256 + b, lo |-> c * 256 + d]
Loopback == Addr(127, 0, 0, 1)
ZeroAddr == Addr(0, 0, 0, 0)

IsValidIPv4(addr) ==
    IF addr = Loopback THEN FALSE ELSE addr # ZeroAddr

\* GetIPPriority with the third test narrowed to 172.16.0.0/16.
GetIPPriorityNarrow(addr) ==
    IF addr.hi = 192 * 256 + 168 THEN 100
    ELSE IF addr.hi \div 256 = 10 THEN 50
    ELSE IF addr.hi = 172 * 256 + 16 THEN 30
    ELSE IF addr # Loopback /\ addr # ZeroAddr THEN 10
    ELSE 0

GetIPPriority(addr) ==
    IF addr.hi = 192 * 256 + 168 THEN 100
    ELSE IF addr.hi \div 256 = 10 THEN 50
    ELSE IF addr.hi \div 16 = 172 * 16 + 1 THEN 30
    ELSE IF addr # Loopback /\ addr # ZeroAddr THEN 10
    ELSE 0

\* WSAAddressToStringW: dotted quad, kept as the sequence of the octets.
AddrToString(addr) ==
    << addr.hi \div 256, addr.hi % 256, addr.lo \div 256, addr.lo % 256 >>

\* One pass of the "priority > best" scan over a list of addresses, started
\* from the pair best = [ip, priority].
\* The scan with ties replacing the current best.
RECURSIVE ScanAddrsLastWins(_, _, _)
ScanAddrsLastWins(addrs, i, best) ==
    IF i > Len(addrs) THEN best
    ELSE LET a == addrs[i]
             better == IsValidIPv4(a) /\ GetIPPriority(a) >= best.priority
         IN  ScanAddrsLastWins(addrs, i + 1,
                 IF better THEN [ip |-> AddrToString(a),
                                 priority |-> GetIPPriority(a)]
                 ELSE best)

RECURSIVE ScanAddrs(_, _, _)
ScanAddrs(addrs, i, best) ==
    IF i > Len(addrs) THEN best
    ELSE LET a == addrs[i]
             better == IsValidIPv4(a) /\ GetIPPriority(a) > best.priority
         IN  ScanAddrs(addrs, i + 1,
                 IF better THEN [ip |-> AddrToString(a),
                                 priority |-> GetIPPriority(a)]
                 ELSE best)

NoBest == [ip |-> EmptyStr, priority |-> 0]

pick_from(adapter) == ScanAddrs(adapter.addrs, 1, NoBest).ip

\* The adapter filter without the OperStatus test.
UsableWhenDown(adapter) == ~adapter.loopback
Usable(adapter) == adapter.up /\ ~adapter.loopback

\* The name match on FriendlyName alone.
MatchesFriendlyName(adapter, preferred) == adapter.FriendlyName = preferred
Matches(adapter, preferred) ==
    \/ adapter.FriendlyName = preferred
    \/ adapter.AdapterName = preferred

\* The fallback loop: one running best over every usable adapter.
RECURSIVE FallbackPass(_, _, _)
FallbackPass(adapters, i, best) ==
    IF i > Len(adapters) THEN best.ip
    ELSE FallbackPass(adapters, i + 1,
             IF Usable(adapters[i]) THEN ScanAddrs(adapters[i].addrs, 1, best)
             ELSE best)

\* The preferred loop with one running best over every matching adapter.
PreferredPassOverAll(adapters, i, preferred) ==
    FallbackPass(SelectSeq(adapters, LAMBDA a : Matches(a, preferred)),
                 i, NoBest)

\* The preferred loop: first matching usable adapter whose pick is non-empty.
RECURSIVE PreferredPass(_, _, _)
PreferredPass(adapters, i, preferred) ==
    IF i > Len(adapters) THEN EmptyStr
    ELSE IF Usable(adapters[i]) /\ Matches(adapters[i], preferred)
            /\ pick_from(adapters[i]) # EmptyStr
         THEN pick_from(adapters[i])
         ELSE PreferredPass(adapters, i + 1, preferred)

\* What GetAdaptersAddresses produced: its return code and adapter list.
Enumeration(list) == [ok |-> TRUE, adapters |-> list]
EnumError == [ok |-> FALSE, adapters |-> <<>>]
\* The default argument L"" of GetInternalIPv4: no preferred adapter.
NoPreferred == ""

\* The selector without the fallback after a preferred miss.
GetInternalIPv4NoFallback(enumeration, preferred) ==
    IF ~enumeration.ok THEN EmptyStr
    ELSE IF preferred # NoPreferred
    THEN PreferredPass(enumeration.adapters, 1, preferred)
    ELSE FallbackPass(enumeration.adapters, 1, NoBest)

GetInternalIPv4(enumeration, preferred) ==
    IF ~enumeration.ok THEN EmptyStr
    ELSE LET pref == IF preferred # NoPreferred
                     THEN PreferredPass(enumeration.adapters, 1, preferred)
                     ELSE EmptyStr
         IN  IF pref # EmptyStr THEN pref
             ELSE FallbackPass(enumeration.adapters, 1, NoBest)

(* --------------------------- external lookup --------------------------- *)
\* IpWithCountry, default constructed.
EmptyResult == [ip |-> EmptyStr, country |-> EmptyStr, as_name |-> EmptyStr]

IsValid(r) == r.ip # EmptyStr

Strategies == {"FIXED", "ADAPTIVE", "NETWORK_EVENT", "HYBRID"}

\* ExternalIpOptions values the callers pass (intervals in clock units).
Options ==
    [strategy : Strategies, min_refresh : {2}, fast_refresh : {1},
     max_refresh : {3}, adaptive_cycles : {0, MaxCycles}]

\* The options of the callers under fair scheduling: a strategy without
\* and one with the fast mode.
FairOptions ==
    { o \in Options : /\ o.strategy \in {"FIXED", "HYBRID"}
                      /\ o.adaptive_cycles = MaxCycles }

DefaultOptions ==
    [strategy |-> "HYBRID", min_refresh |-> 2, fast_refresh |-> 1,
     max_refresh |-> 3, adaptive_cycles |-> 0]

\* Response bodies the server may send.
BodyFull    == << "{", "\"", "i", "p", "\"", ":", " ", "\"", "8", "\"", ",",
                  "\"", "c", "o", "u", "n", "t", "r", "y", "\"", ":",
                  "\"", "U", "S", "\"", ",",
                  "\"", "o", "r", "g", "\"", ":",
                  "\"", "A", "S", "9", " ", "X", "\"", "}" >>
BodyOrigin  == << "{", "\"", "o", "r", "i", "g", "i", "n", "\"", ":",
                  "\"", "9", "\"", "}" >>
BodyNoIp    == << "{", "\"", "c", "o", "u", "n", "t", "r", "y", "\"", ":",
                  "\"", "U", "S", "\"", "}" >>
BodyBlank   == << " ", "\n" >>
Bodies == {BodyFull, BodyOrigin, BodyNoIp, BodyBlank}

\* What one pass through the WinHTTP sequence can end in: a handle could not
\* be created (early return), send/receive failed (ok = false), or a body.
FetchOutcomes ==
    [kind : {"no_handle", "not_ok"}, data : {EmptyStr}]
        \cup [kind : {"body"}, data : Bodies]

\* The outcomes the concurrent callers meet: each kind, with one body that
\* parses to an address and one that does not.
ConcurrentOutcomes ==
    {x \in FetchOutcomes : x.data \in {EmptyStr, BodyFull, BodyNoIp}}

Whitespace == {" ", "\t", "\r", "\n"}

\* find_first_not_of / find_last_not_of and substr.
RECURSIVE TrimLeft(_)
TrimLeft(s) ==
    IF s # EmptyStr /\ Head(s) \in Whitespace THEN TrimLeft(Tail(s)) ELSE s

RECURSIVE TrimRight(_)
TrimRight(s) ==
    IF s # EmptyStr /\ s[Len(s)] \in Whitespace
    THEN TrimRight(SubSeq(s, 1, Len(s) - 1)) ELSE s

Trimmed(data) == TrimRight(TrimLeft(data))

\* The parse that gives up unless both the address and the country are found.
ParseBodyAllFields(data) ==
    LET trimmed == Trimmed(data)
        ip      == ExtractJsonField(trimmed, <<"i", "p">>)
        country == ExtractJsonField(trimmed,
                       <<"c", "o", "u", "n", "t", "r", "y">>)
    IN  IF ip = EmptyStr \/ country = EmptyStr THEN EmptyResult
        ELSE [ip |-> ToWide(ip), country |-> ToWide(country),
              as_name |-> EmptyStr]

\* Step 6: the body parsed into an IpWithCountry.
\* A parser that also copies the "org" field into as_name.
ParseBodyWithOrg(data) ==
    LET trimmed == Trimmed(data)
        ip1     == ExtractJsonField(trimmed, <<"i", "p">>)
        ip      == IF ip1 = EmptyStr
                   THEN ExtractJsonField(trimmed, <<"o", "r", "i", "g", "i", "n">>)
                   ELSE ip1
        country == ExtractJsonField(trimmed,
                       <<"c", "o", "u", "n", "t", "r", "y">>)
    IN  IF trimmed = EmptyStr THEN EmptyResult
        ELSE [ip |-> ToWide(ip), country |-> ToWide(country),
              as_name |-> ToWide(ExtractJsonField(trimmed, <<"o", "r", "g">>))]

ParseBody(data) ==
    LET trimmed == Trimmed(data)
        ip1     == ExtractJsonField(trimmed, <<"i", "p">>)
        ip      == IF ip1 = EmptyStr
                   THEN ExtractJsonField(trimmed, <<"o", "r", "i", "g", "i", "n">>)
                   ELSE ip1
        country == ExtractJsonField(trimmed,
                       <<"c", "o", "u", "n", "t", "r", "y">>)
    IN  IF trimmed = EmptyStr THEN EmptyResult
        ELSE [ip |-> ToWide(ip), country |-> ToWide(country),
              as_name |-> EmptyStr]

\* The IpWithCountry `result` after the WinHTTP sequence ended in outcome.
FetchResult(outcome) ==
    IF outcome.kind \in {"no_handle", "not_ok"} THEN EmptyResult
    ELSE ParseBody(outcome.data)

\* FetchResult, tabulated over the outcomes.
ResultOf == [outcome \in FetchOutcomes |-> FetchResult(outcome)]

(* ----------------------- states of the environment --------------------- *)
Adapter(fname, aname, up, loopback, addrs) ==
    [FriendlyName |-> fname, AdapterName |-> aname, up |-> up,
     loopback |-> loopback, addrs |-> addrs]

\* Wi-Fi and a VPN are up: the snapshot is the Wi-Fi address.
NetHome == << Adapter("Loopback", "{lo}", TRUE, TRUE, <<Loopback>>),
              Adapter("VPN", "{vpn}", TRUE, FALSE, <<Addr(10, 0, 0, 9)>>),
              Adapter("Wi-Fi", "{wifi}", TRUE, FALSE, <<Addr(192, 168, 1, 5)>>) >>
\* Wi-Fi is down, the VPN is up: the snapshot is the VPN address.
NetVpn  == << Adapter("Loopback", "{lo}", TRUE, TRUE, <<Loopback>>),
              Adapter("VPN", "{vpn}", TRUE, FALSE,
                      <<Addr(169, 254, 7, 7), Addr(10, 0, 0, 9)>>),
              Adapter("Wi-Fi", "{wifi}", FALSE, FALSE, <<Addr(192, 168, 1, 5)>>) >>
\* Wi-Fi is down and the VPN has no address yet: the snapshot is empty.
NetDown == << Adapter("Loopback", "{lo}", TRUE, TRUE, <<Loopback>>),
              Adapter("VPN", "{vpn}", TRUE, FALSE, <<ZeroAddr>>),
              Adapter("Wi-Fi", "{wifi}", FALSE, FALSE, <<Addr(192, 168, 1, 5)>>) >>
\* The networks of the concurrent and of the sequential specification.
Networks == {Enumeration(NetHome), Enumeration(NetDown)}
SeqNetworks == Networks \cup {Enumeration(NetVpn), EnumError}

\* GetInternalIPv4() with the default argument, tabulated over the networks.
SnapshotOf == [n \in SeqNetworks |-> GetInternalIPv4(n, NoPreferred)]

(* ---------------- decisions of GetExternalIPv4WithCountry -------------- *)
\* std::mutex::lock returns only when no thread owns the mutex.
CanLockAlways(owner) == TRUE
CanLock(owner) == owner = NoThread

\* Owner of mtx once the decision block is left: lk is destroyed.
DecisionScopeHeld(t) == t
DecisionScopeEnd(t) == NoThread

\* The change test without the guard on an empty stored snapshot.
NetworkChangedFromEmpty(last, current) == current # last
NetworkChanged(last, current) == last # EmptyStr /\ current # last

SkipCacheForceOnly(force, changed) == force
SkipCache(force, changed) == force \/ changed

\* The cache test that takes an empty cache for a usable one.
HasCacheAlways(cached, lastFetch) == TRUE
HasCache(cached, lastFetch) == IsValid(cached) /\ lastFetch # 0

IsAdaptive(o) == o.strategy \in {"ADAPTIVE", "HYBRID"}

\* The switch with a stable time of exactly one hour counted as stable.
SelectIntervalFromOneHour(o, counter, nowv, lastChange) ==
    CASE o.strategy = "FIXED" -> o.min_refresh
      [] o.strategy \in {"ADAPTIVE", "HYBRID"} ->
            IF counter > 0 THEN o.fast_refresh
            ELSE IF nowv - lastChange >= OneHour THEN o.max_refresh
            ELSE o.min_refresh
      [] o.strategy = "NETWORK_EVENT" -> o.max_refresh

\* The switch on opt.strategy: the chosen refresh_interval.
SelectInterval(o, counter, nowv, lastChange) ==
    CASE o.strategy = "FIXED" -> o.min_refresh
      [] o.strategy \in {"ADAPTIVE", "HYBRID"} ->
            IF counter > 0 THEN o.fast_refresh
            ELSE IF nowv - lastChange > OneHour THEN o.max_refresh
            ELSE o.min_refresh
      [] o.strategy = "NETWORK_EVENT" -> o.max_refresh

\* fast_mode_counter after the switch.
CounterStuck(o, counter) == counter
CounterAfterAnyStrategy(o, counter) ==
    IF counter > 0 THEN counter - 1 ELSE counter
CounterAfter(o, counter) ==
    IF IsAdaptive(o) /\ counter > 0 THEN counter - 1 ELSE counter

CacheFreshInclusive(nowv, lastFetch, interval) == nowv - lastFetch <= interval
CacheFresh(nowv, lastFetch, interval) == nowv - lastFetch < interval

ShouldStoreAlways(res) == TRUE
ShouldStore(res) == IsValid(res)

\* The time written to last_fetch by a call that read `now` as nowv and
\* stores while the clock shows clk.
FetchStampAtStore(nowv, clk) == clk
FetchStamp(nowv, clk) == nowv

\* The value handed back after the WinHTTP sequence, given the cache.
ReturnStaleOnFailure(res, cached) == IF IsValid(res) THEN res ELSE cached
ReturnAfterFetch(res, cached) == res

Min(a, b) == IF a < b THEN a ELSE b

(* ------------------------- IpWithCountry display ----------------------- *)
GetDisplayString(r) ==
    IF r.country = EmptyStr THEN r.ip ELSE r.country \o <<" ">> \o r.ip

Blank == {" ", "\t"}

\* while (!name.empty() && front is ' ' or '\t') name.erase(0, 1)
RECURSIVE TrimFront(_)
TrimFront(s) ==
    IF s # EmptyStr /\ Head(s) \in Blank THEN TrimFront(Tail(s)) ELSE s

\* while (!name.empty() && back is ' ' or '\t') name.pop_back()
RECURSIVE TrimBack(_)
TrimBack(s) ==
    IF s # EmptyStr /\ s[Len(s)] \in Blank
    THEN TrimBack(SubSeq(s, 1, Len(s) - 1)) ELSE s

\* std::wstring::rfind(pat): greatest 1-based index not above from where
\* pat occurs in s, 0 for npos.
RECURSIVE RFindFrom(_, _, _)
RFindFrom(s, pat, from) ==
    IF from < 1 THEN 0
    ELSE IF from + Len(pat) - 1 <= Len(s)
            /\ SubSeq(s, from, from + Len(pat) - 1) = pat THEN from
    ELSE RFindFrom(s, pat, from - 1)

\* name.substr(0, n)
Prefix(s, n) == SubSeq(s, 1, Min(n, Len(s)))

\* The suffixes of GetCompanyName, in the order of the array.
Suffixes ==
    << << " ", "I", "n", "c", "." >>,
       << " ", "L", "L", "C" >>,
       << " ", "L", "t", "d", "." >>,
       << " ", "C", "o", "r", "p", "." >>,
       << " ", "C", "o", "r", "p", "o", "r", "a", "t", "i", "o", "n" >>,
       << " ", "S", "e", "r", "v", "i", "c", "e", "s" >> >>

\* The loop over the suffixes without the break: every suffix the name ends
\* with when its turn comes is removed.
RECURSIVE StripEverySuffix(_, _)
StripEverySuffix(name, i) ==
    IF i > Len(Suffixes) THEN name
    ELSE LET suffix == Suffixes[i]
             pos == RFindFrom(name, suffix, Len(name))
             without_suffix == TrimBack(SubSeq(name, 1, pos - 1))
         IN  IF pos # 0 /\ pos + Len(suffix) - 1 = Len(name)
                /\ without_suffix # EmptyStr
             THEN StripEverySuffix(without_suffix, i + 1)
             ELSE StripEverySuffix(name, i + 1)

\* The loop over the suffixes: the first suffix the name ends with, and that
\* leaves a non-empty rest, is removed, and the loop ends.
RECURSIVE StripSuffix(_, _)
StripSuffix(name, i) ==
    IF i > Len(Suffixes) THEN name
    ELSE LET suffix == Suffixes[i]
             pos == RFindFrom(name, suffix, Len(name))
             without_suffix == TrimBack(SubSeq(name, 1, pos - 1))
         IN  IF pos # 0 /\ pos + Len(suffix) - 1 = Len(name)
                /\ without_suffix # EmptyStr
             THEN without_suffix
             ELSE StripSuffix(name, i + 1)

GetCompanyName(as_name) ==
    LET trimmed   == TrimBack(TrimFront(as_name))
        space_pos == FindFrom(trimmed, <<" ">>, 1)
        no_as     == IF Prefix(trimmed, 2) = <<"A", "S">>
                        /\ space_pos # 0 /\ space_pos < Len(trimmed)
                     THEN TrimFront(SubSeq(trimmed, space_pos + 1,
                                           Len(trimmed)))
                     ELSE trimmed
        comma_pos == FindFrom(no_as, <<",">>, 1)
        front     == TrimBack(SubSeq(no_as, 1, comma_pos - 1))
        no_comma  == IF comma_pos # 0 /\ front # EmptyStr THEN front
                     ELSE no_as
        name      == StripSuffix(no_comma, 1)
    IN  IF as_name = EmptyStr THEN EmptyStr
        ELSE IF name = EmptyStr THEN as_name ELSE name

(* ------------------------------- display ------------------------------- *)
\* L"N/A", shown for a value that could not be obtained.
NotAvailable == << "N", "/", "A" >>
\* The fixed prompt of IpTextProvider::GetText when nothing is enabled (one
\* symbol stands for the whole wide string).
EnablePrompt == << "enable-ip-display" >>

\* The PluginOptions fields the display reads.
DisplayOptions ==
    [show_internal : BOOLEAN, show_external : BOOLEAN,
     separator : {<< " ", "|", " " >>, EmptyStr}]

\* The internal text of GetText and of Update when show_internal is set.
InternalKeptEmpty(ip) == ip
InternalText(ip) == IF ip = EmptyStr THEN NotAvailable ELSE ip

\* The external text of GetText and of Update when show_external is set.
ExternalText(r) ==
    IF IsValid(r) THEN GetDisplayString(r) ELSE NotAvailable

\* IpTextProvider::GetText, given what GetInternalIPv4 and
\* GetExternalIPv4WithCountry return to it (they are called only when the
\* matching flag is set).
GetText(opts, ip, r) ==
    LET internal == IF opts.show_internal THEN InternalText(ip)
                    ELSE EmptyStr
        external == IF opts.show_external THEN ExternalText(r)
                    ELSE EmptyStr
    IN  IF opts.show_internal /\ opts.show_external
        THEN internal \o opts.separator \o external
        ELSE IF opts.show_internal THEN internal
        ELSE IF opts.show_external THEN external
        ELSE EnablePrompt

\* internal_ip_ after IpPluginItem::Update, ext_result being what its own
\* call of GetExternalIPv4WithCountry returned.
UpdateInternal(opts, ip, ext_result) ==
    IF opts.show_internal THEN InternalText(ip)
    ELSE IF opts.show_external /\ IsValid(ext_result)
            /\ ext_result.as_name # EmptyStr
    THEN GetCompanyName(ext_result.as_name)
    ELSE EmptyStr

\* external_ip_ after IpPluginItem::Update.
UpdateExternal(opts, ext_result) ==
    IF opts.show_external THEN ExternalText(ext_result) ELSE EmptyStr

(* --------------------- inputs of the stateless helpers ----------------- *)
\* Longest adapter list and longest generated text the helpers are given.
MaxAdapters == 2
MaxText == 6
\* Most pieces an organization string is composed of.
MaxPieces == 3

\* The arguments of a helper call: the helper and one field per parameter
\* (the fields a helper does not take keep these values).
NoArg ==
    [fn |-> "none", addr |-> ZeroAddr, net |-> EnumError,
     preferred |-> NoPreferred, text |-> EmptyStr, field |-> EmptyStr,
     opts |-> [show_internal |-> TRUE, show_external |-> TRUE,
               separator |-> << " ", "|", " " >>],
     ip |-> EmptyStr, ext |-> EmptyResult, ext_result |-> EmptyResult]

\* What a helper call produced.
NoOut ==
    [num |-> 0, valid |-> FALSE, str |-> EmptyStr, internal_ip |-> EmptyStr,
     external_ip |-> EmptyStr]

\* IPv4 values around the borders of the private ranges.
ScorerAddrs ==
    { Addr(a, b, c, d) :
        a \in {0, 9, 10, 11, 127, 128, 169, 171, 172, 173, 191, 192, 193, 255},
        b \in {0, 1, 15, 16, 17, 31, 32, 167, 168, 169, 254, 255},
        c \in {0, 255}, d \in {0, 1} }

\* Unicast address lists of an adapter: invalid addresses only, one private
\* address, a later better address, public and 172.16/12 addresses.
AddrLists ==
    { << ZeroAddr, Loopback >>,
      << Addr(10, 0, 0, 9) >>,
      << Addr(192, 168, 1, 5) >>,
      << Addr(10, 0, 0, 7), Addr(192, 168, 1, 6) >>,
      << Addr(8, 8, 8, 8), Addr(172, 16, 0, 1) >> }

\* Adapters: two names; up with each address list, and down or a
\* loopback-type interface holding the best-scored address.
AdapterNames == { << "Wi-Fi", "{wifi}" >>, << "Ethernet", "{eth}" >> }
AdapterPool ==
    { Adapter(n[1], n[2], TRUE, FALSE, l) : n \in AdapterNames, l \in AddrLists }
    \cup { Adapter(n[1], n[2], s[1], s[2], << Addr(192, 168, 1, 5) >>) :
             n \in AdapterNames, s \in { << FALSE, FALSE >>, << TRUE, TRUE >> } }

AdapterLists == UNION { [1..n -> AdapterPool] : n \in 0..MaxAdapters }

\* preferred_adapter: none, a friendly name, an adapter name, an unknown name.
PreferredNames == { NoPreferred, "Wi-Fi", "{eth}", "Missing" }

ResolverInputs ==
    { [NoArg EXCEPT !.fn = "GetInternalIPv4", !.net = e, !.preferred = p] :
        e \in { Enumeration(l) : l \in AdapterLists } \cup { EnumError },
        p \in PreferredNames }

ScorerInputs ==
    { [NoArg EXCEPT !.fn = "GetIPPriority", !.addr = a] : a \in ScorerAddrs }

\* Every text up to MaxText characters over a quote, a key letter, a colon
\* and a space, searched for the key "a".
TextAlphabet == { "\"", "a", ":", " " }
ShortTexts == UNION { [1..n -> TextAlphabet] : n \in 0..MaxText }
ShortKey == << "a" >>

\* {"ip":"8.8.8.8","country":"US"}
JsonExample ==
    << "{", "\"", "i", "p", "\"", ":", "\"", "8", ".", "8", ".", "8", ".",
       "8", "\"", ",", "\"", "c", "o", "u", "n", "t", "r", "y", "\"", ":",
       "\"", "U", "S", "\"", "}" >>
\* {"ip":<tab> 8,"country":"a\"b"}: a number, and an escaped quote.
JsonOdd ==
    << "{", "\"", "i", "p", "\"", ":", "\t", " ", "8", ",", "\"", "c", "o",
       "u", "n", "t", "r", "y", "\"", ":", "\"", "a", "\\", "\"", "b", "\"",
       "}" >>
\* {"country" :<tab>"US","ip":"8: the value of ip is not closed.
JsonOpen ==
    << "{", "\"", "c", "o", "u", "n", "t", "r", "y", "\"", " ", ":", "\t",
       "\"", "U", "S", "\"", ",", "\"", "i", "p", "\"", ":", "\"", "8" >>
JsonTexts == Bodies \cup { JsonExample, JsonOdd, JsonOpen }
JsonKeys ==
    { << "i", "p" >>, << "c", "o", "u", "n", "t", "r", "y" >>,
      << "o", "r", "i", "g", "i", "n" >>,
      << "m", "i", "s", "s", "i", "n", "g" >> }

ExtractInputs ==
    { [NoArg EXCEPT !.fn = "ExtractJsonField", !.text = t, !.field = ShortKey] :
        t \in ShortTexts }
    \cup { [NoArg EXCEPT !.fn = "ExtractJsonField", !.text = t, !.field = k] :
             t \in JsonTexts, k \in JsonKeys }

\* AS organization strings.
OrgDmit ==
    << "A", "S", "9", "0", "6", " ", "D", "M", "I", "T", " ", "C", "l", "o",
       "u", "d", " ", "S", "e", "r", "v", "i", "c", "e", "s", ",", " ", "I",
       "n", "c", "." >>
OrgCloudflare ==
    << "C", "l", "o", "u", "d", "f", "l", "a", "r", "e", ",", " ", "I", "n",
       "c", "." >>
OrgGoogle == << " ", "G", "o", "o", "g", "l", "e", " ", "L", "L", "C", "\t" >>
OrgNumberOnly == << "A", "S", "1", "3" >>
OrgCommaFirst == << ",", " ", "I", "n", "c", "." >>
OrgBlank == << " ", "\t" >>
OrgTexts ==
    { EmptyStr, OrgDmit, OrgCloudflare, OrgGoogle, OrgNumberOnly,
      OrgCommaFirst, OrgBlank }

\* One name with each of the remaining suffixes.
OrgWithSuffix == { << "X" >> \o Suffixes[i] : i \in 1..Len(Suffixes) }

\* The pieces AS organization strings are composed of: an AS-number token,
\* a bare "AS", a name letter, a space, a tab, a comma, the first, a middle
\* and the last suffix.
OrgPieces ==
    { << "A", "S", "9", " " >>, << "A", "S" >>, << "X" >>, << " " >>,
      << "\t" >>, << "," >>, Suffixes[1], Suffixes[2], Suffixes[6] }

\* The pieces of a sequence, joined.
RECURSIVE Joined(_)
Joined(pieces) ==
    IF pieces = << >> THEN EmptyStr ELSE Head(pieces) \o Joined(Tail(pieces))

\* Every string of up to MaxPieces pieces.
ComposedOrgTexts ==
    { Joined(q) : q \in UNION { [1..n -> OrgPieces] : n \in 0..MaxPieces } }

CompanyInputs ==
    { [NoArg EXCEPT !.fn = "GetCompanyName", !.text = t] :
        t \in OrgTexts \cup OrgWithSuffix \cup ComposedOrgTexts }

\* What GetExternalIPv4WithCountry can return: the results of the outcomes.
LookupResults == { ResultOf[x] : x \in FetchOutcomes }
\* What GetInternalIPv4 can return on the networks.
LocalResults == { SnapshotOf[n] : n \in SeqNetworks }

\* IpPluginItem::Update: the options, the local address, the result of the
\* lookup made by GetText and the result of the lookup made by Update.
UpdateInputs ==
    { [NoArg EXCEPT !.fn = "Update", !.opts = o, !.ip = i, !.ext = r,
                    !.ext_result = q] :
        o \in DisplayOptions, i \in LocalResults, r \in LookupResults,
        q \in LookupResults }

\* a is a call of one helper on one of its inputs.
HelperInput(a) ==
    \/ a \in ScorerInputs
    \/ a \in ResolverInputs
    \/ a \in ExtractInputs
    \/ a \in CompanyInputs
    \/ a \in UpdateInputs

(* -------------------------------- state -------------------------------- *)
VARIABLES
    clock,              \* std::chrono::steady_clock
    network,            \* what GetAdaptersAddresses currently reports
    mtx,                \* static std::mutex: owning thread or NoThread
    cached_result,      \* static IpWithCountry
    last_fetch,         \* static time_point, 0 is the epoch
    last_change,        \* static time_point, 0 is the epoch
    fast_mode_counter,  \* static int
    last_internal_ip,   \* static std::wstring
    pc,                 \* per thread: position in GetExternalIPv4WithCountry
    now,                \* per thread: local `now` (0 outside a call)
    result,             \* per thread: local `result`
    ret,                \* per thread: value returned by the last call
    fetches,            \* history: WinHTTP sequences run by the call
    audit,              \* the histories below are recorded (sequential runs)
    last_check,         \* history: strategy and refresh_interval of the last
                        \*          decision, NoCheck if it skipped the check
    qual_calls,         \* history: adaptive cache checks since the last
                        \*          change, counted up to change_cycles
    change_cycles,      \* history: adaptive_cycles of the last change
    stale,              \* history: a fetch failed since the last cache write
    after_fail,         \* history, per thread: the call began while stale
    expired,            \* history: the last decision checked the cache and
                        \*          found the interval it selected elapsed
    helper,             \* the stateless helper applied last, "none" before
    arg,                \* the arguments the helper is applied to
    out,                \* what the helper returned
    force_refresh_next_,    \* TMIpPlugin::force_refresh_next_
    show_internal,          \* options_.show_internal
    show_external,          \* options_.show_external
    enable_smart_cache,     \* options_.enable_smart_cache
    tick_pc,                \* position of the host inside DataRequired
    force_external_refresh, \* the argument of item_.Update in that tick
    resolver_calls,         \* history: force_refresh of each call the tick
                            \*          has made to GetExternalIPv4WithCountry
    tick_results,           \* history, inside a tick: why each of those
                            \*          calls fetched or not, and how it ended
    tick_counter            \* history, inside a tick: fast_mode_counter
                            \*          when the tick began

cache == << cached_result, last_fetch, last_change, fast_mode_counter,
            last_internal_ip >>
locals == << now, result >>
history == << fetches, audit, last_check, qual_calls, change_cycles, stale,
              after_fail, expired >>
pure == << helper, arg, out >>
lookup == << clock, network, mtx, cache, pc, locals, ret, history >>
plugin == << force_refresh_next_, show_internal, show_external,
            enable_smart_cache, tick_pc, force_external_refresh,
            resolver_calls, tick_results, tick_counter >>
vars == << lookup, pure, plugin >>

NoCheck == [strategy |-> "none", interval |-> 0]

\* A history value: recorded when auditing, frozen otherwise.
Recorded(new, old) == IF audit THEN new ELSE old

InitWith(nets, auditing) ==
    /\ clock = 1
    /\ network \in nets
    /\ mtx = NoThread
    /\ cached_result = EmptyResult
    /\ last_fetch = 0
    /\ last_change = 0
    /\ fast_mode_counter = 0
    /\ last_internal_ip = EmptyStr
    /\ pc = [t \in Threads |-> "idle"]
    /\ now = [t \in Threads |-> 0]
    /\ result = [t \in Threads |-> EmptyResult]
    /\ ret = [t \in Threads |-> EmptyResult]
    /\ fetches = [t \in Threads |-> 0]
    /\ audit = auditing
    /\ last_check = NoCheck
    /\ qual_calls = 0
    /\ change_cycles = 0
    /\ stale = FALSE
    /\ after_fail = [t \in Threads |-> FALSE]
    /\ expired = FALSE

\* No helper is under test.
NoHelper == helper = "none" /\ arg = NoArg /\ out = NoOut

\* The plugin with the options of plugin_options.h, outside DataRequired.
PluginAtRest ==
    /\ force_refresh_next_ = FALSE
    /\ show_internal = TRUE
    /\ show_external = TRUE
    /\ enable_smart_cache = TRUE
    /\ tick_pc = "idle"
    /\ force_external_refresh = FALSE
    /\ resolver_calls = << >>
    /\ tick_results = << >>
    /\ tick_counter = 0

Init == InitWith(Networks, FALSE) /\ NoHelper /\ PluginAtRest
InitSeq == InitWith(SeqNetworks, TRUE) /\ NoHelper /\ PluginAtRest

(* ------------------------------- actions ------------------------------- *)
\* Entry: `now` is read, before any locking.
Call(t) ==
    /\ pc[t] = "idle"
    /\ pc' = [pc EXCEPT ![t] = "entered"]
    /\ now' = [now EXCEPT ![t] = clock]
    /\ ret' = [ret EXCEPT ![t] = EmptyResult]
    /\ fetches' = [fetches EXCEPT ![t] = 0]
    /\ after_fail' = Recorded([after_fail EXCEPT ![t] = stale], after_fail)
    /\ UNCHANGED << clock, network, mtx, cache, result, audit, last_check,
                    qual_calls, change_cycles, stale, expired >>
    /\ UNCHANGED pure

\* std::lock_guard lk(mtx) of the decision block.
Lock(t) ==
    /\ pc[t] = "entered"
    /\ CanLock(mtx)
    /\ mtx' = t
    /\ pc' = [pc EXCEPT ![t] = "decide"]
    /\ UNCHANGED << clock, network, cache, locals, ret, history >>
    /\ UNCHANGED pure

\* The decision block, from the snapshot to the end of the block, of a call
\* made with the arguments opt = o and force_refresh = f.
Decide(t, o, f) ==
    LET current  == SnapshotOf[network]
        changed  == NetworkChanged(last_internal_ip, current)
        change1  == IF changed THEN now[t] ELSE last_change
        counter1 == IF changed THEN o.adaptive_cycles ELSE fast_mode_counter
        check    == /\ ~SkipCache(f, changed)
                    /\ HasCache(cached_result, last_fetch)
        interval == SelectInterval(o, counter1, now[t], change1)
        hit      == check /\ CacheFresh(now[t], last_fetch, interval)
    IN  /\ pc[t] = "decide"
        /\ last_change' = change1
        /\ last_internal_ip' =
               IF changed \/ last_internal_ip = EmptyStr THEN current
               ELSE last_internal_ip
        /\ fast_mode_counter' =
               IF check THEN CounterAfter(o, counter1) ELSE counter1
        /\ IF hit
           THEN /\ pc' = [pc EXCEPT ![t] = "idle"]
                /\ ret' = [ret EXCEPT ![t] = cached_result]
                /\ mtx' = NoThread
                /\ now' = [now EXCEPT ![t] = 0]
           ELSE /\ pc' = [pc EXCEPT ![t] = "fetch"]
                /\ mtx' = DecisionScopeEnd(t)
                /\ UNCHANGED << ret, now >>
        /\ last_check' =
               Recorded(IF check THEN [strategy |-> o.strategy,
                                       interval |-> interval]
                        ELSE NoCheck, last_check)
        /\ qual_calls' =
               Recorded(IF changed THEN 0
                        ELSE IF check /\ IsAdaptive(o)
                             THEN Min(qual_calls + 1, change_cycles)
                             ELSE qual_calls, qual_calls)
        /\ change_cycles' =
               Recorded(IF changed THEN o.adaptive_cycles ELSE change_cycles,
                        change_cycles)
        /\ expired' =
               Recorded(check /\ now[t] - last_fetch >= interval, expired)
        /\ UNCHANGED << clock, network, cached_result, last_fetch, result,
                        fetches, audit, stale, after_fail >>
        /\ UNCHANGED pure

\* The WinHTTP sequence and the parsing of the body, outside any lock. A
\* handle that cannot be created returns the empty result at once.
FetchRetry(t, outcome) ==
    /\ pc[t] = "fetch"
    /\ fetches' = [fetches EXCEPT ![t] = @ + 1]
    /\ IF outcome.kind = "no_handle"
       THEN /\ pc' = [pc EXCEPT ![t] = "idle"]
            /\ ret' = [ret EXCEPT ![t] = EmptyResult]
            /\ now' = [now EXCEPT ![t] = 0]
            /\ UNCHANGED result
       ELSE IF outcome.kind = "not_ok"
       THEN UNCHANGED << pc, ret, now, result >>
       ELSE /\ pc' = [pc EXCEPT ![t] = "fetched"]
            /\ result' = [result EXCEPT ![t] = ResultOf[outcome]]
            /\ UNCHANGED << ret, now >>
    /\ stale' = Recorded(stale \/ (~IsValid(ResultOf[outcome])
                                     /\ IsValid(cached_result)), stale)
    /\ UNCHANGED << clock, network, mtx, cache, audit, last_check, qual_calls,
                    change_cycles, after_fail, expired >>
    /\ UNCHANGED pure

Fetch(t, outcome) ==
    /\ pc[t] = "fetch"
    /\ fetches' = [fetches EXCEPT ![t] = @ + 1]
    /\ IF outcome.kind = "no_handle"
       THEN /\ pc' = [pc EXCEPT ![t] = "idle"]
            /\ ret' = [ret EXCEPT ![t] = EmptyResult]
            /\ now' = [now EXCEPT ![t] = 0]
            /\ UNCHANGED result
       ELSE /\ pc' = [pc EXCEPT ![t] = "fetched"]
            /\ result' = [result EXCEPT ![t] = ResultOf[outcome]]
            /\ UNCHANGED << ret, now >>
    /\ stale' = Recorded(stale \/ (~IsValid(ResultOf[outcome])
                                     /\ IsValid(cached_result)), stale)
    /\ UNCHANGED << clock, network, mtx, cache, audit, last_check, qual_calls,
                    change_cycles, after_fail, expired >>
    /\ UNCHANGED pure

\* result.IsValid() is false: nothing is stored, the result is returned.
ReturnUnstored(t) ==
    /\ pc[t] = "fetched"
    /\ ~ShouldStore(result[t])
    /\ pc' = [pc EXCEPT ![t] = "idle"]
    /\ ret' = [ret EXCEPT ![t] = ReturnAfterFetch(result[t], cached_result)]
    /\ result' = [result EXCEPT ![t] = EmptyResult]
    /\ now' = [now EXCEPT ![t] = 0]
    /\ UNCHANGED << clock, network, mtx, cache, history >>
    /\ UNCHANGED pure

\* std::lock_guard lk(mtx) of the cache update.
LockForStore(t) ==
    /\ pc[t] = "fetched"
    /\ ShouldStore(result[t])
    /\ CanLock(mtx)
    /\ mtx' = t
    /\ pc' = [pc EXCEPT ![t] = "store"]
    /\ UNCHANGED << clock, network, cache, locals, ret, history >>
    /\ UNCHANGED pure

\* A cache update that writes cached_result and leaves last_fetch.
StoreResultOnly(t) ==
    /\ pc[t] = "store"
    /\ cached_result' = result[t]
    /\ mtx' = NoThread
    /\ pc' = [pc EXCEPT ![t] = "idle"]
    /\ ret' = [ret EXCEPT ![t] = ReturnAfterFetch(result[t], cached_result)]
    /\ result' = [result EXCEPT ![t] = EmptyResult]
    /\ now' = [now EXCEPT ![t] = 0]
    /\ stale' = Recorded(IF IsValid(result[t]) THEN FALSE ELSE stale, stale)
    /\ UNCHANGED << clock, network, last_fetch, last_change,
                    fast_mode_counter, last_internal_ip, fetches, audit,
                    last_check, qual_calls, change_cycles, after_fail,
                    expired >>
    /\ UNCHANGED pure

\* The cache update, the unlock and the return of result.
Store(t) ==
    /\ pc[t] = "store"
    /\ cached_result' = result[t]
    /\ last_fetch' = FetchStamp(now[t], clock)
    /\ mtx' = NoThread
    /\ pc' = [pc EXCEPT ![t] = "idle"]
    /\ ret' = [ret EXCEPT ![t] = ReturnAfterFetch(result[t], cached_result)]
    /\ result' = [result EXCEPT ![t] = EmptyResult]
    /\ now' = [now EXCEPT ![t] = 0]
    /\ stale' = Recorded(IF IsValid(result[t]) THEN FALSE ELSE stale, stale)
    /\ UNCHANGED << clock, network, last_change, fast_mode_counter,
                    last_internal_ip, fetches, audit, last_check, qual_calls,
                    change_cycles, after_fail, expired >>
    /\ UNCHANGED pure

\* Environment: the steady clock advances.
Tick ==
    /\ clock < MaxTime
    /\ clock' = clock + 1
    /\ UNCHANGED << network, mtx, cache, pc, locals, ret, history >>
    /\ UNCHANGED pure

\* Environment: the adapters change.
NetChange(n) ==
    /\ n # network
    /\ network' = n
    /\ UNCHANGED << clock, mtx, cache, pc, locals, ret, history >>
    /\ UNCHANGED pure

(* ------------------------- the stateless helpers ----------------------- *)
\* GetIPPriority, and IsValidIPv4, of one address.
ScoreAddress ==
    /\ helper = "none" /\ arg.fn = "GetIPPriority"
    /\ helper' = arg.fn
    /\ out' = [NoOut EXCEPT !.num = GetIPPriority(arg.addr),
                            !.valid = IsValidIPv4(arg.addr)]
    /\ UNCHANGED << arg, lookup >>

\* GetInternalIPv4(preferred_adapter) on what GetAdaptersAddresses reports.
ResolveLocal ==
    /\ helper = "none" /\ arg.fn = "GetInternalIPv4"
    /\ helper' = arg.fn
    /\ out' = [NoOut EXCEPT !.str = GetInternalIPv4(arg.net, arg.preferred)]
    /\ UNCHANGED << arg, lookup >>

\* ExtractJsonField(json, field).
ExtractField ==
    /\ helper = "none" /\ arg.fn = "ExtractJsonField"
    /\ helper' = arg.fn
    /\ out' = [NoOut EXCEPT !.str = ExtractJsonField(arg.text, arg.field)]
    /\ UNCHANGED << arg, lookup >>

\* IpWithCountry::GetCompanyName() of a value whose as_name is the text.
FormatCompany ==
    /\ helper = "none" /\ arg.fn = "GetCompanyName"
    /\ helper' = arg.fn
    /\ out' = [NoOut EXCEPT !.str = GetCompanyName(arg.text)]
    /\ UNCHANGED << arg, lookup >>

\* IpPluginItem::Update with a provider: value_ from GetText, then
\* internal_ip_ and external_ip_.
UpdateItem ==
    /\ helper = "none" /\ arg.fn = "Update"
    /\ helper' = arg.fn
    /\ out' = [NoOut EXCEPT
                 !.str = GetText(arg.opts, arg.ip, arg.ext),
                 !.internal_ip =
                     UpdateInternal(arg.opts, arg.ip, arg.ext_result),
                 !.external_ip = UpdateExternal(arg.opts, arg.ext_result)]
    /\ UNCHANGED << arg, lookup >>

Next ==
    \/ \E t \in Threads : Call(t) /\ UNCHANGED plugin
    \/ \E t \in Threads : Lock(t) /\ UNCHANGED plugin
    \/ \E t \in Threads, o \in Options, f \in BOOLEAN :
           Decide(t, o, f) /\ UNCHANGED plugin
    \/ \E t \in Threads, outcome \in ConcurrentOutcomes :
           Fetch(t, outcome) /\ UNCHANGED plugin
    \/ \E t \in Threads : ReturnUnstored(t) /\ UNCHANGED plugin
    \/ \E t \in Threads : LockForStore(t) /\ UNCHANGED plugin
    \/ \E t \in Threads : Store(t) /\ UNCHANGED plugin
    \/ Tick /\ UNCHANGED plugin
    \/ \E n \in Networks : NetChange(n) /\ UNCHANGED plugin

\* Concurrent callers.
Spec == Init /\ [][Next]_vars

NextSeq ==
    \/ \E t \in SeqThreads : Call(t) /\ UNCHANGED plugin
    \/ \E t \in SeqThreads : Lock(t) /\ UNCHANGED plugin
    \/ \E t \in SeqThreads, o \in Options, f \in BOOLEAN :
           Decide(t, o, f) /\ UNCHANGED plugin
    \/ \E t \in SeqThreads, outcome \in FetchOutcomes :
           Fetch(t, outcome) /\ UNCHANGED plugin
    \/ \E t \in SeqThreads : ReturnUnstored(t) /\ UNCHANGED plugin
    \/ \E t \in SeqThreads : LockForStore(t) /\ UNCHANGED plugin
    \/ \E t \in SeqThreads : Store(t) /\ UNCHANGED plugin
    \/ Tick /\ UNCHANGED plugin
    \/ \E n \in SeqNetworks : NetChange(n) /\ UNCHANGED plugin

\* One caller, calls in sequence, with the histories recorded.
SpecSeq == InitSeq /\ [][NextSeq]_vars

\* The scheduling of the concurrent callers: a thread inside a call keeps
\* running (weak fairness of its steps), the WinHTTP sequence returns, and a
\* thread that finds the mutex free again and again gets it in the end
\* (strong fairness of the two lock_guard acquisitions). Nothing obliges a
\* caller to call or the clock to advance; the adapters stay as they are.
Fairness ==
    \A t \in Threads :
        /\ SF_vars(Lock(t) /\ UNCHANGED plugin)
        /\ SF_vars(LockForStore(t) /\ UNCHANGED plugin)
        /\ WF_vars(\E o \in FairOptions, f \in BOOLEAN :
                       Decide(t, o, f) /\ UNCHANGED plugin)
        /\ WF_vars(\E outcome \in ConcurrentOutcomes :
                       Fetch(t, outcome) /\ UNCHANGED plugin)
        /\ WF_vars(ReturnUnstored(t) /\ UNCHANGED plugin)
        /\ WF_vars(Store(t) /\ UNCHANGED plugin)

NextFair ==
    \/ \E t \in Threads : Call(t) /\ UNCHANGED plugin
    \/ \E t \in Threads : Lock(t) /\ UNCHANGED plugin
    \/ \E t \in Threads, o \in FairOptions, f \in BOOLEAN :
           Decide(t, o, f) /\ UNCHANGED plugin
    \/ \E t \in Threads, outcome \in ConcurrentOutcomes :
           Fetch(t, outcome) /\ UNCHANGED plugin
    \/ \E t \in Threads : ReturnUnstored(t) /\ UNCHANGED plugin
    \/ \E t \in Threads : LockForStore(t) /\ UNCHANGED plugin
    \/ \E t \in Threads : Store(t) /\ UNCHANGED plugin
    \/ Tick /\ UNCHANGED plugin

\* Concurrent callers under fair scheduling.
SpecFair == Init /\ [][NextFair]_vars /\ Fairness

InitPure ==
    /\ InitWith({EnumError}, FALSE)
    /\ helper = "none"
    /\ HelperInput(arg)
    /\ out = NoOut
    /\ PluginAtRest

NextPure ==
    \/ ScoreAddress /\ UNCHANGED plugin
    \/ ResolveLocal /\ UNCHANGED plugin
    \/ ExtractField /\ UNCHANGED plugin
    \/ FormatCompany /\ UNCHANGED plugin
    \/ UpdateItem /\ UNCHANGED plugin

\* One call of one stateless helper on one input.
SpecPure == InitPure /\ [][NextPure]_vars

(* --------------------------- the plugin object -------------------------- *)
\* The adaptive_cycles the plugin's calls carry (the default of
\* ExternalIpOptions, never set by the plugin), scaled to the model.
PluginCycles == 2

\* The options IpPluginItem::Update passes.
ItemOptions ==
    [strategy |-> IF enable_smart_cache THEN "HYBRID" ELSE "FIXED",
     min_refresh |-> 2, fast_refresh |-> 1, max_refresh |-> 3,
     adaptive_cycles |-> PluginCycles]

\* The options IpTextProvider::GetText passes: a default ExternalIpOptions
\* (HYBRID) with min_refresh taken from the plugin options.
TextOptionsConfigured == ItemOptions
TextOptions ==
    [strategy |-> "HYBRID", min_refresh |-> 2, fast_refresh |-> 1,
     max_refresh |-> 3, adaptive_cycles |-> PluginCycles]

\* force_refresh_next_ once DataRequired has called item_.Update.
FlagKeptAfterTick(flag) == flag
FlagAfterTick(flag) == FALSE

\* The options as LoadOptions may find them in the configuration file.
InitPlugin ==
    /\ InitWith(Networks, FALSE)
    /\ NoHelper
    /\ force_refresh_next_ = FALSE
    /\ show_internal \in BOOLEAN
    /\ show_external \in BOOLEAN
    /\ enable_smart_cache \in BOOLEAN
    /\ tick_pc = "idle"
    /\ force_external_refresh = FALSE
    /\ resolver_calls = << >>
    /\ tick_results = << >>
    /\ tick_counter = 0

\* OnPluginCommand(command_index), between two ticks.
OnPluginCommand(c) ==
    /\ tick_pc = "idle"
    /\ show_internal' = IF c = 0 THEN ~show_internal ELSE show_internal
    /\ show_external' = IF c = 1 THEN ~show_external ELSE show_external
    /\ force_refresh_next_' = IF c = 2 THEN TRUE ELSE force_refresh_next_
    /\ UNCHANGED << enable_smart_cache, tick_pc, force_external_refresh,
                    resolver_calls, tick_results, tick_counter >>
    /\ UNCHANGED << lookup, pure >>

\* DataRequired up to the entry of item_.Update(force_refresh_next_); with
\* show_external off neither GetText nor Update calls the resolver.
DataRequiredBegin ==
    /\ tick_pc = "idle"
    /\ force_external_refresh' = force_refresh_next_
    /\ resolver_calls' = << >>
    /\ tick_results' = << >>
    /\ tick_counter' = fast_mode_counter
    /\ tick_pc' = IF show_external THEN "text" ELSE "clear"
    /\ UNCHANGED << force_refresh_next_, show_internal, show_external,
                    enable_smart_cache >>
    /\ UNCHANGED << lookup, pure >>

\* GetText, and then Update, call GetExternalIPv4WithCountry.
ResolverEnter ==
    /\ tick_pc \in {"text", "item"}
    /\ \E t \in SeqThreads : Call(t)
    /\ tick_pc' = IF tick_pc = "text" THEN "text_call" ELSE "item_call"
    /\ resolver_calls' = Append(resolver_calls, force_external_refresh)
    /\ UNCHANGED << force_refresh_next_, show_internal, show_external,
                    enable_smart_cache, force_external_refresh, tick_results,
                    tick_counter >>

\* What the decision block of the call of thread t rests on.
DecisionOf(t) ==
    IF NetworkChanged(last_internal_ip, SnapshotOf[network]) THEN "changed"
    ELSE IF force_external_refresh THEN "forced"
    ELSE IF ~HasCache(cached_result, last_fetch) THEN "no_cache"
    ELSE IF pc'[t] = "idle" THEN "fresh"
    ELSE "expired"

\* One step of that call; when it returns the tick moves on.
ResolverStep ==
    /\ tick_pc \in {"text_call", "item_call"}
    /\ \E t \in SeqThreads :
           /\ \/ Lock(t)
              \/ Decide(t, IF tick_pc = "text_call" THEN TextOptions
                           ELSE ItemOptions, force_external_refresh)
              \/ \E outcome \in ConcurrentOutcomes : Fetch(t, outcome)
              \/ ReturnUnstored(t)
              \/ LockForStore(t)
              \/ Store(t)
           /\ tick_pc' = IF pc'[t] # "idle" THEN tick_pc
                         ELSE IF tick_pc = "text_call" THEN "item"
                         ELSE "clear"
           /\ tick_results' =
                  IF pc[t] = "decide"
                  THEN Append(tick_results,
                              [why |-> DecisionOf(t),
                               end |-> IF pc'[t] = "idle" THEN "hit"
                                       ELSE "running"])
                  ELSE IF pc'[t] = "idle"
                  THEN [tick_results EXCEPT ![Len(tick_results)].end =
                            IF pc[t] = "store" THEN "stored" ELSE "failed"]
                  ELSE tick_results
    /\ UNCHANGED << force_refresh_next_, show_internal, show_external,
                    enable_smart_cache, force_external_refresh,
                    resolver_calls, tick_counter >>

\* force_refresh_next_ = false, and the rest of DataRequired.
DataRequiredEnd ==
    /\ tick_pc = "clear"
    /\ force_refresh_next_' = FlagAfterTick(force_refresh_next_)
    /\ tick_pc' = "idle"
    /\ tick_results' = << >>
    /\ tick_counter' = 0
    /\ UNCHANGED << show_internal, show_external, enable_smart_cache,
                    force_external_refresh, resolver_calls >>
    /\ UNCHANGED << lookup, pure >>

NextPlugin ==
    \/ \E c \in 0..3 : OnPluginCommand(c)
    \/ DataRequiredBegin
    \/ ResolverEnter
    \/ ResolverStep
    \/ DataRequiredEnd
    \/ Tick /\ UNCHANGED plugin
    \/ \E n \in Networks : NetChange(n) /\ UNCHANGED plugin

\* The host drives the plugin: commands and ticks, one handler at a time.
SpecPlugin == InitPlugin /\ [][NextPlugin]_vars

TypeOK ==
    /\ clock \in 1..MaxTime
    /\ mtx \in Threads \cup {NoThread}
    /\ pc \in [Threads -> {"idle", "entered", "decide", "fetch", "fetched",
                           "store"}]
    /\ now \in [Threads -> 0..MaxTime]
    /\ last_fetch \in 0..MaxTime
    /\ last_change \in 0..MaxTime
    /\ expired \in BOOLEAN
    /\ force_refresh_next_ \in BOOLEAN
    /\ tick_pc \in {"idle", "text", "text_call", "item", "item_call", "clear"}
    /\ Len(resolver_calls) <= 2
    /\ Len(tick_results) <= 2
    /\ tick_counter \in 0..PluginCycles
    /\ helper \in {"none", "GetIPPriority", "GetInternalIPv4",
                   "ExtractJsonField", "GetCompanyName", "Update"}
    /\ helper # "none" => helper = arg.fn

(* ------------------------- steps named by the claims -------------------- *)
\* The snapshot differs from the stored, non-empty one.
ChangeSeen == last_internal_ip # EmptyStr
              /\ SnapshotOf[network] # last_internal_ip

\* A valid cached_result with last_fetch_time set.
CacheUsable == cached_result.ip # EmptyStr /\ last_fetch # 0

\* Thread t leaves its decision block.
Decides(t) == pc[t] = "decide" /\ pc'[t] # "decide"

\* Thread t leaves the call.
Returns(t) == pc[t] # "idle" /\ pc'[t] = "idle"

\* Thread t leaves the call after a fetch that gave no valid result.
FailReturn(t) ==
    \/ pc[t] = "fetch" /\ pc'[t] = "idle"
    \/ pc[t] = "fetched" /\ result[t].ip = EmptyStr /\ pc'[t] = "idle"

\* Thread t is in the decision phase or in the cache write-back.
InCritical(t) == pc[t] \in {"decide", "store"}

(* -------------------------------- claims -------------------------------- *)
\* C1: a call with force_refresh = false that sees no network change, while
\* cached_result is valid and last_fetch is set, returns exactly
\* cached_result without fetching when now - last_fetch is strictly below the
\* interval selected for its strategy (min_refresh under FIXED), and goes on
\* to fetch when now - last_fetch is at or above that interval.
C1_CacheHitRule ==
    [][\A t \in SeqThreads :
          (Decides(t) /\ ~ChangeSeen /\ CacheUsable) =>
          \A o \in Options :
              LET interval == IF o.strategy = "FIXED" THEN o.min_refresh
                              ELSE SelectInterval(o, fast_mode_counter,
                                                  now[t], last_change)
                  outcome  == IF now[t] - last_fetch < interval
                              THEN /\ pc'[t] = "idle"
                                   /\ ret'[t] = cached_result
                                   /\ fetches'[t] = 0
                                   /\ cached_result' = cached_result
                                   /\ last_fetch' = last_fetch
                              ELSE pc'[t] = "fetch"
              IN  outcome \/ ~Decide(t, o, FALSE)]_vars

\* C1 witness: a call has returned the valid cached value without fetching,
\* some time after the fetch that filled the cache.
C1_Witness ==
    \E t \in SeqThreads :
        /\ pc[t] = "idle"
        /\ fetches[t] = 0
        /\ ret[t].ip # EmptyStr
        /\ ret[t] = cached_result
        /\ clock > last_fetch

\* C2: a call with force_refresh = true, and a call that detects a network
\* change, skips the cache check (no interval is selected, the fast-mode
\* counter is not consumed) and goes on to fetch, whatever the strategy, the
\* intervals and the age of the cache.
C2_ForceOrChangeFetches ==
    [][\A t \in SeqThreads :
          Decides(t) =>
          \A o \in Options, f \in BOOLEAN :
              (f \/ ChangeSeen) =>
              \/ /\ pc'[t] = "fetch"
                 /\ last_check' = NoCheck
                 /\ fast_mode_counter' = IF ChangeSeen THEN o.adaptive_cycles
                                         ELSE fast_mode_counter
                 /\ ret'[t] = ret[t]
              \/ ~Decide(t, o, f)]_vars

\* C2 witness: the caller is in the fetch step although the cache is valid
\* and younger than the shortest interval.
C2_Witness ==
    \E t \in SeqThreads :
        /\ pc[t] = "fetch"
        /\ CacheUsable
        /\ \A o \in Options : now[t] - last_fetch < o.fast_refresh
        /\ last_check = NoCheck

\* C3: cached_result and last_fetch change only in the cache update of a
\* call whose result is valid, and become that result and that call's `now`;
\* a call that returns after a failed fetch or an unparsable body leaves both
\* as they were.
C3_CacheWrittenOnlyOnSuccess ==
    [][/\ (cached_result' # cached_result \/ last_fetch' # last_fetch) =>
              \E t \in SeqThreads :
                  /\ pc[t] = "store" /\ pc'[t] = "idle"
                  /\ result[t].ip # EmptyStr
                  /\ cached_result' = result[t]
                  /\ last_fetch' = now[t]
       /\ \A t \in SeqThreads :
              FailReturn(t) => /\ cached_result' = cached_result
                               /\ last_fetch' = last_fetch]_vars

\* C3 witness: a call that started before the clock advanced has fetched and
\* stored its result, stamped with its own `now`.
C3_Witness ==
    \E t \in SeqThreads :
        /\ pc[t] = "idle"
        /\ fetches[t] = 1
        /\ ret[t].ip # EmptyStr
        /\ cached_result = ret[t]
        /\ last_fetch # 0
        /\ last_fetch < clock

\* C4 as stated: when the fetch of a call fails and a valid cached_result
\* exists, the call returns the stale cached value.
C4_StaleValueReturned ==
    [][\A t \in SeqThreads :
          (FailReturn(t) /\ cached_result.ip # EmptyStr) =>
          ret'[t] = cached_result]_vars

\* C4 amended: when the fetch of a call fails, the call returns an invalid
\* result (empty address) whether or not a valid cached_result exists, and
\* the cache keeps its value.
C4_FailureReturnsInvalid ==
    [][\A t \in SeqThreads :
          FailReturn(t) => /\ ret'[t].ip = EmptyStr
                           /\ cached_result' = cached_result
                           /\ last_fetch' = last_fetch]_vars

\* C4 witness: the call fetched, returned an invalid result, and the cache
\* holds a valid value.
C4_Witness ==
    \E t \in SeqThreads :
        /\ pc[t] = "idle"
        /\ fetches[t] = 1
        /\ ret[t].ip = EmptyStr
        /\ cached_result.ip # EmptyStr
        /\ stale

\* C5 as stated: once a fetch has failed over a populated cache, every call
\* begun afterwards returns the earlier valid value, until a fetch succeeds.
C5_LaterCallsReturnEarlierValue ==
    [][\A t \in SeqThreads :
          (Returns(t) /\ after_fail[t] /\ stale') =>
          (ret'[t] = cached_result /\ ret'[t].ip # EmptyStr)]_vars

\* C5 amended: once a fetch has failed over a populated cache, the cache
\* keeps the earlier valid value until a fetch succeeds; a call begun
\* afterwards returns that value when it is served from the cache, and an
\* invalid result when its own fetch fails.
C5_CacheKeptAfterFailure ==
    [][/\ (stale /\ stale') => (/\ cached_result' = cached_result
                                /\ cached_result.ip # EmptyStr)
       /\ \A t \in SeqThreads :
              (Returns(t) /\ after_fail[t] /\ stale') =>
              IF fetches'[t] = 0 THEN ret'[t] = cached_result
              ELSE ret'[t].ip = EmptyStr]_vars

\* C5 witness: a call begun after the failed fetch was served the earlier
\* valid value from the cache.
C5_Witness ==
    \E t \in SeqThreads :
        /\ pc[t] = "idle"
        /\ after_fail[t]
        /\ stale
        /\ fetches[t] = 0
        /\ ret[t].ip # EmptyStr
        /\ ret[t] = cached_result

\* C6: after a call detects a network change with adaptive_cycles = N, the
\* next N calls that reach the cache check under ADAPTIVE or HYBRID select
\* fast_refresh, and the following one selects max_refresh when now -
\* last_change exceeds one hour and min_refresh otherwise.
C6_FastModeCycles ==
    [][\A t \in SeqThreads :
          (Decides(t) /\ ~ChangeSeen /\ CacheUsable) =>
          \A o \in Options :
              (Decide(t, o, FALSE) /\ o.strategy \in {"ADAPTIVE", "HYBRID"})
              => last_check'.interval =
                     IF qual_calls < change_cycles THEN o.fast_refresh
                     ELSE IF now[t] - last_change > OneHour
                          THEN o.max_refresh
                          ELSE o.min_refresh]_vars

\* C6 witness: a change with N >= 1 was detected, N adaptive checks followed,
\* and the check after them selected a slow interval.
C6_Witness ==
    /\ change_cycles >= 1
    /\ qual_calls = change_cycles
    /\ fast_mode_counter = 0
    /\ last_check.strategy \in {"ADAPTIVE", "HYBRID"}
    /\ last_check.interval \in {o.min_refresh : o \in Options}
                                 \cup {o.max_refresh : o \in Options}
    /\ last_change # 0

\* C7: a thread inside the fetch step does not own the mutex.
C7_FetchOutsideLock ==
    \A t \in Threads : pc[t] = "fetch" => mtx # t

\* C7 witness: one thread is in the fetch step while the other one owns the
\* mutex.
C7_Witness ==
    \E t \in Threads, u \in Threads :
        pc[t] = "fetch" /\ mtx = u /\ u # t

\* C8: a thread is in the decision phase or in the cache write-back only
\* while it owns the mutex, at most one thread is there at a time, and the
\* cache state changes only in steps of the owner of the mutex.
C8_CacheStateUnderLock ==
    /\ [](/\ \A t \in Threads : InCritical(t) <=> mtx = t
          /\ Cardinality({t \in Threads : InCritical(t)}) <= 1)
    /\ [][cache' # cache =>
              \E t \in Threads : mtx = t /\ InCritical(t) /\ pc'[t] # pc[t]]_vars

\* C8 witness: one thread is in its decision phase while the other one waits
\* for the mutex to write its result back.
C8_Witness ==
    \E t \in Threads, u \in Threads :
        /\ pc[t] = "decide"
        /\ pc[u] = "fetched"
        /\ result[u].ip # EmptyStr

\* C9: while one thread is in the fetch step, another thread that waits for
\* the mutex can take it unless a third party is in a critical section, and
\* once it is in its decision block with force_refresh = false, no network
\* change and a cache fresh for its interval, it returns cached_result
\* without fetching while the first thread is still fetching.
C9_SlowFetchDoesNotBlock ==
    \A t \in Threads : \A u \in Threads \ {t} :
        pc[t] = "fetch" =>
        /\ (pc[u] = "entered" /\ \A v \in Threads : ~InCritical(v))
               => ENABLED Lock(u)
        /\ (pc[u] = "decide" /\ ~ChangeSeen /\ CacheUsable) =>
               \A o \in Options :
                   now[u] - last_fetch
                       < SelectInterval(o, fast_mode_counter, now[u],
                                        last_change)
                   => ENABLED (/\ Decide(u, o, FALSE)
                               /\ pc'[u] = "idle"
                               /\ ret'[u] = cached_result
                               /\ fetches'[u] = 0
                               /\ pc'[t] = "fetch")

\* C9 witness: one thread is in the fetch step and the other one has taken
\* the mutex and finds a cache that is fresh for every interval.
C9_Witness ==
    \E t \in Threads : \E u \in Threads \ {t} :
        /\ pc[t] = "fetch"
        /\ pc[u] = "decide"
        /\ mtx = u
        /\ ~ChangeSeen
        /\ CacheUsable
        /\ \A o \in Options : now[u] - last_fetch < o.fast_refresh

\* C10: a call runs the WinHTTP sequence at most once: none before the end
\* of its decision, exactly one once it has a result, never a second one.
C10_NoRetry ==
    \A t \in SeqThreads :
        /\ fetches[t] <= 1
        /\ pc[t] \in {"entered", "decide", "fetch"} => fetches[t] = 0
        /\ pc[t] \in {"fetched", "store"} => fetches[t] = 1

\* C10 witness: a call has returned an invalid result after one fetch.
C10_Witness ==
    \E t \in SeqThreads :
        /\ pc[t] = "idle"
        /\ fetches[t] = 1
        /\ ret[t].ip = EmptyStr

(* ------------------------ claims on the helpers ------------------------ *)
\* The four octets of an address.
Octets(addr) ==
    << addr.hi \div 256, addr.hi % 256, addr.lo \div 256, addr.lo % 256 >>

\* The score table of the address scorer, by octets.
ScoreByTable(addr) ==
    LET o == Octets(addr)
    IN  IF o[1] = 192 /\ o[2] = 168 THEN 100
        ELSE IF o[1] = 10 THEN 50
        ELSE IF o[1] = 172 /\ o[2] >= 16 /\ o[2] <= 31 THEN 30
        ELSE IF o = << 127, 0, 0, 1 >> \/ o = << 0, 0, 0, 0 >> THEN 0
        ELSE 10

\* C11: the score of an IPv4 address is 100 in 192.168.0.0/16, 50 in
\* 10.0.0.0/8, 30 in 172.16.0.0/12, 0 for 127.0.0.1 and for 0.0.0.0, and 10
\* for every other address, link-local 169.254.0.0/16 included.
C11_ScoreTable ==
    helper = "GetIPPriority" => out.num = ScoreByTable(arg.addr)

\* C11 witness: a link-local address has been scored 10.
C11_Witness ==
    /\ helper = "GetIPPriority"
    /\ Octets(arg.addr) = << 169, 254, 0, 1 >>
    /\ out.num = 10

\* An adapter that is operationally up and no loopback-type interface.
Eligible(adapter) == adapter.up /\ ~adapter.loopback

\* The adapter is named by the preferred identifier.
Named(adapter, preferred) ==
    adapter.FriendlyName = preferred \/ adapter.AdapterName = preferred

\* The positions << adapter, address >> of the addresses with a score above
\* 0 on the eligible adapters, all of them or those named by preferred.
Scored(ads, preferred) ==
    UNION { { << i, j >> : j \in { k \in 1..Len(ads[i].addrs) :
                                     ScoreByTable(ads[i].addrs[k]) > 0 } } :
            i \in { k \in 1..Len(ads) :
                      /\ Eligible(ads[k])
                      /\ preferred = NoPreferred \/ Named(ads[k], preferred) } }

\* Position p is enumerated no later than position q.
Before(p, q) == p[1] < q[1] \/ (p[1] = q[1] /\ p[2] <= q[2])

\* The first address, in adapter-then-address order, that attains the
\* maximum score over all eligible adapters; empty when there is none.
GlobalBest(ads) ==
    LET S == Scored(ads, NoPreferred)
        score(p) == ScoreByTable(ads[p[1]].addrs[p[2]])
    IN  IF S = {} THEN EmptyStr
        ELSE LET b == CHOOSE p \in S :
                        \A q \in S : \/ score(p) > score(q)
                                     \/ score(p) = score(q) /\ Before(p, q)
             IN  Octets(ads[b[1]].addrs[b[2]])

\* C12: with no preferred adapter the selector returns the first address, in
\* adapter-then-address order, that attains the maximum score over all
\* addresses of all up, non-loopback adapters, and returns empty exactly
\* when no such address has a score above 0.
C12_GlobalBestReturned ==
    (helper = "GetInternalIPv4" /\ arg.preferred = NoPreferred) =>
        /\ out.str = GlobalBest(arg.net.adapters)
        /\ out.str = EmptyStr <=>
               Scored(arg.net.adapters, NoPreferred) = {}

\* C12 witness: adapters [10.0.0.9], [192.168.1.5] gave 192.168.1.5.
C12_Witness ==
    /\ helper = "GetInternalIPv4"
    /\ arg.preferred = NoPreferred
    /\ Len(arg.net.adapters) = 2
    /\ \A i \in 1..2 : Eligible(arg.net.adapters[i])
    /\ arg.net.adapters[1].addrs = << Addr(10, 0, 0, 9) >>
    /\ arg.net.adapters[2].addrs = << Addr(192, 168, 1, 5) >>
    /\ out.str = << 192, 168, 1, 5 >>

\* C13: a returned address is an address, with a score above 0, of an up,
\* non-loopback adapter, whatever the preferred identifier; and when every
\* adapter the identifier names is down or a loopback-type interface, the
\* result is the one of a call without preference.
C13_OnlyEligibleAdapters ==
    helper = "GetInternalIPv4" =>
        LET ads == arg.net.adapters
        IN  /\ out.str # EmptyStr =>
                   \E p \in Scored(ads, NoPreferred) :
                       out.str = Octets(ads[p[1]].addrs[p[2]])
            /\ (\A i \in 1..Len(ads) :
                    Named(ads[i], arg.preferred) => ~Eligible(ads[i]))
                   => out.str = GlobalBest(ads)

\* C13 witness: the preferred adapter is down and holds 192.168.1.5, and the
\* address of the other adapter was returned.
C13_Witness ==
    /\ helper = "GetInternalIPv4"
    /\ arg.preferred = "Wi-Fi"
    /\ Len(arg.net.adapters) = 2
    /\ arg.net.adapters[1] =
           Adapter("Wi-Fi", "{wifi}", FALSE, FALSE, << Addr(192, 168, 1, 5) >>)
    /\ Eligible(arg.net.adapters[2])
    /\ out.str = << 10, 0, 0, 9 >>

\* C14: when preferred is non-empty and an up, non-loopback adapter named by
\* it (friendly name or adapter name) has an address with a score above 0,
\* the returned address is an address of such an adapter, even when another
\* adapter holds an address with a strictly higher score.
C14_PreferenceOverridesScore ==
    (/\ helper = "GetInternalIPv4"
     /\ arg.preferred # NoPreferred
     /\ Scored(arg.net.adapters, arg.preferred) # {}) =>
        \E p \in Scored(arg.net.adapters, arg.preferred) :
            out.str = Octets(arg.net.adapters[p[1]].addrs[p[2]])

\* C14 witness: the adapter named by its adapter name holds 10.0.0.9, an
\* earlier adapter holds 192.168.1.5, and 10.0.0.9 was returned.
C14_Witness ==
    /\ helper = "GetInternalIPv4"
    /\ arg.preferred = "{eth}"
    /\ Len(arg.net.adapters) = 2
    /\ arg.net.adapters[1] =
           Adapter("Wi-Fi", "{wifi}", TRUE, FALSE, << Addr(192, 168, 1, 5) >>)
    /\ arg.net.adapters[2] =
           Adapter("Ethernet", "{eth}", TRUE, FALSE, << Addr(10, 0, 0, 9) >>)
    /\ out.str = << 10, 0, 0, 9 >>

\* C15: when preferred is non-empty and no up, non-loopback adapter named by
\* it has an address with a score above 0, the result is the one of a call
\* without preference: the global best over the up adapters.
C15_PreferredMissFallsThrough ==
    (/\ helper = "GetInternalIPv4"
     /\ arg.preferred # NoPreferred
     /\ Scored(arg.net.adapters, arg.preferred) = {}) =>
        out.str = GlobalBest(arg.net.adapters)

\* C15 witness: the preferred adapter is up with invalid addresses only, and
\* the address of the other adapter was returned.
C15_Witness ==
    /\ helper = "GetInternalIPv4"
    /\ arg.preferred = "Wi-Fi"
    /\ Len(arg.net.adapters) = 2
    /\ arg.net.adapters[1] =
           Adapter("Wi-Fi", "{wifi}", TRUE, FALSE, << ZeroAddr, Loopback >>)
    /\ arg.net.adapters[2] =
           Adapter("Ethernet", "{eth}", TRUE, FALSE, << Addr(10, 0, 0, 9) >>)
    /\ out.str = << 10, 0, 0, 9 >>

\* The least element of a non-empty set of positions.
Least(S) == CHOOSE i \in S : \A j \in S : i <= j

\* The reference scan: the first occurrence of the quoted key, the run of
\* ':', space and tab after it, an opening quote, and the characters up to
\* the next quote; empty when any of them is missing.
ReferenceScan(text, field) ==
    LET key  == << "\"" >> \o field \o << "\"" >>
        occ  == { i \in 1..(Len(text) - Len(key) + 1) :
                    SubSeq(text, i, i + Len(key) - 1) = key }
    IN  IF occ = {} THEN EmptyStr
        ELSE LET rest == { j \in (Least(occ) + Len(key))..Len(text) :
                             text[j] \notin { ":", " ", "\t" } }
             IN  IF rest = {} THEN EmptyStr
                 ELSE IF text[Least(rest)] # "\"" THEN EmptyStr
                 ELSE LET close == { j \in (Least(rest) + 1)..Len(text) :
                                       text[j] = "\"" }
                      IN  IF close = {} THEN EmptyStr
                          ELSE SubSeq(text, Least(rest) + 1,
                                      Least(close) - 1)

\* C16: ExtractJsonField(text, field) equals the reference scan (first
\* occurrence of the quoted key, empty if absent; skip ':', space and tab;
\* empty unless a double quote follows; the characters up to the next double
\* quote, no escape handling); on {"ip":"8.8.8.8","country":"US"} the field
\* ip is 8.8.8.8 and a missing key gives empty.
C16_ExtractIsReferenceScan ==
    helper = "ExtractJsonField" =>
        /\ out.str = ReferenceScan(arg.text, arg.field)
        /\ (arg.text = JsonExample /\ arg.field = << "i", "p" >>)
               => out.str = << "8", ".", "8", ".", "8", ".", "8" >>
        /\ (arg.text = JsonExample
              /\ arg.field = << "m", "i", "s", "s", "i", "n", "g" >>)
               => out.str = EmptyStr

\* C16 witness: the field ip of {"ip":"8.8.8.8","country":"US"} was
\* extracted as 8.8.8.8.
C16_Witness ==
    /\ helper = "ExtractJsonField"
    /\ arg.text = JsonExample
    /\ arg.field = << "i", "p" >>
    /\ out.str = << "8", ".", "8", ".", "8", ".", "8" >>

\* The address a response body carries: the string field ip, or else the
\* string field origin.
AddressIn(body) ==
    IF ReferenceScan(body, << "i", "p" >>) # EmptyStr
    THEN ReferenceScan(body, << "i", "p" >>)
    ELSE ReferenceScan(body, << "o", "r", "i", "g", "i", "n" >>)

CountryIn(body) == ReferenceScan(body, << "c", "o", "u", "n", "t", "r", "y" >>)

\* C17: response parsing degrades field by field. A body that carries an
\* address gives a valid result with that address, with the country of the
\* body or an empty country when the body has none, and with an empty
\* organization, and this result is written to the cache and returned; a
\* body that carries no address gives an invalid result, also when it
\* carries a country, and the call returns it with cached_result and
\* last_fetch untouched.
C17_ParseDegradesByField ==
    [][\A t \in SeqThreads :
          /\ \A body \in Bodies :
                 \/ pc[t] # "fetch"
                 \/ /\ result'[t].ip = AddressIn(body)
                    /\ result'[t].country = CountryIn(body)
                    /\ result'[t].as_name = EmptyStr
                    /\ IsValid(result'[t]) <=> AddressIn(body) # EmptyStr
                    /\ cached_result' = cached_result
                 \/ ~Fetch(t, [kind |-> "body", data |-> body])
          /\ (pc[t] = "fetched" /\ pc'[t] # "fetched") =>
                 IF result[t].ip # EmptyStr
                 THEN pc'[t] = "store"
                 ELSE /\ pc'[t] = "idle"
                      /\ ret'[t] = result[t]
                      /\ cached_result' = cached_result
                      /\ last_fetch' = last_fetch
          /\ (pc[t] = "store" /\ pc'[t] # "store") =>
                 /\ result[t].ip # EmptyStr
                 /\ cached_result' = result[t]
                 /\ last_fetch' = now[t]
                 /\ ret'[t] = result[t]]_vars

\* C17 witness: the body {"origin":"9"}, with no country, was parsed, stored
\* and returned as a valid result with an empty country.
C17_Witness ==
    \E t \in SeqThreads :
        /\ pc[t] = "idle"
        /\ fetches[t] = 1
        /\ ret[t] = [ip |-> << "9" >>, country |-> EmptyStr,
                     as_name |-> EmptyStr]
        /\ cached_result = ret[t]
        /\ AddressIn(BodyOrigin) = << "9" >>
        /\ CountryIn(BodyOrigin) = EmptyStr

DmitCloudServices ==
    << "D", "M", "I", "T", " ", "C", "l", "o", "u", "d", " ", "S", "e", "r",
       "v", "i", "c", "e", "s" >>

\* C18 as stated: GetCompanyName of "AS906 DMIT Cloud Services, Inc." is
\* "DMIT Cloud Services" (the AS-number token and the text from the first
\* comma on are removed and the remaining company name is kept whole), and
\* GetCompanyName of "" is "".
C18_FormatKeepsCompanyName ==
    helper = "GetCompanyName" =>
        /\ arg.text = OrgDmit => out.str = DmitCloudServices
        /\ arg.text = EmptyStr => out.str = EmptyStr

\* C18, what the code returns: after the AS number and the text from the
\* comma on are removed, the suffix loop also removes " Services", and
\* "DMIT Cloud" is returned.
C18_ReturnsDmitCloud ==
    /\ helper = "GetCompanyName"
    /\ arg.text = OrgDmit
    /\ out.str = << "D", "M", "I", "T", " ", "C", "l", "o", "u", "d" >>

\* The text shown for a local address and for an external result: the fixed
\* placeholder when there is none.
ShownLocal(ip) == IF ip = EmptyStr THEN << "N", "/", "A" >> ELSE ip
ShownExternal(r) ==
    IF r.ip = EmptyStr THEN << "N", "/", "A" >> ELSE GetDisplayString(r)

\* C19: GetText returns internal + separator + external when both show flags
\* are set, the internal text alone when only show_internal is set, the
\* external text alone when only show_external is set, and the fixed prompt
\* when neither is set; an empty local address or an invalid external result
\* is replaced by "N/A", in the text and in the fields Update fills, so no
\* enabled component is empty.
C19_TextComposition ==
    helper = "Update" =>
        LET o == arg.opts
        IN  /\ out.str =
                   IF o.show_internal /\ o.show_external
                   THEN ShownLocal(arg.ip) \o o.separator
                            \o ShownExternal(arg.ext)
                   ELSE IF o.show_internal THEN ShownLocal(arg.ip)
                   ELSE IF o.show_external THEN ShownExternal(arg.ext)
                   ELSE EnablePrompt
            /\ ShownLocal(arg.ip) # EmptyStr
            /\ ShownExternal(arg.ext) # EmptyStr
            /\ out.str # EmptyStr
            /\ o.show_internal =>
                   /\ out.internal_ip = ShownLocal(arg.ip)
                   /\ out.internal_ip # EmptyStr
            /\ o.show_external =>
                   /\ out.external_ip = ShownExternal(arg.ext_result)
                   /\ out.external_ip # EmptyStr

\* C19 witness: both components are enabled, there is no local address and
\* the external result is invalid, and the text is "N/A | N/A".
C19_Witness ==
    /\ helper = "Update"
    /\ arg.opts.show_internal /\ arg.opts.show_external
    /\ arg.ip = EmptyStr
    /\ arg.ext.ip = EmptyStr
    /\ out.str = << "N", "/", "A", " ", "|", " ", "N", "/", "A" >>

\* C20: in the decision phase of a call the fresh snapshot is the result of
\* the selector without preference on the current adapters; a change is
\* flagged iff the stored snapshot is non-empty and differs from it; a
\* flagged change sets last_change to the call's now and fast_mode_counter
\* to adaptive_cycles (and skips the cache); without one last_change is kept
\* and the counter is only consumed; and after the decision of every call
\* last_internal_ip equals the fresh snapshot.
C20_ChangeDetection ==
    [][\A t \in SeqThreads :
          Decides(t) =>
              LET fresh   == GlobalBest(network.adapters)
                  changed == last_internal_ip # EmptyStr
                                 /\ fresh # last_internal_ip
              IN  /\ last_internal_ip' = fresh
                  /\ IF changed
                     THEN /\ last_change' = now[t]
                          /\ pc'[t] = "fetch"
                          /\ \A o \in Options, f \in BOOLEAN :
                                 \/ fast_mode_counter' = o.adaptive_cycles
                                 \/ ~Decide(t, o, f)
                     ELSE /\ last_change' = last_change
                          /\ fast_mode_counter' \in
                                 { fast_mode_counter, fast_mode_counter - 1 }]_vars

\* C20 witness: a call found a stored snapshot that differs from the fresh
\* one, stamped the change with its own now, started the fast mode and stored
\* the fresh snapshot.
C20_Witness ==
    \E t \in SeqThreads :
        /\ pc[t] = "fetch"
        /\ last_change = now[t]
        /\ last_change # 0
        /\ fast_mode_counter = MaxCycles
        /\ last_internal_ip = GlobalBest(network.adapters)
        /\ last_internal_ip # EmptyStr

(* ------------------------- claims on the lookup, II --------------------- *)
\* C21: on the cache check FIXED selects min_refresh and NETWORK_EVENT
\* selects max_refresh, whatever fast_mode_counter and the stable time are;
\* ADAPTIVE and HYBRID select alike: fast_refresh while fast_mode_counter is
\* above 0, otherwise max_refresh when now - last_change is strictly above
\* one hour, otherwise (exactly one hour included) min_refresh. The call
\* returns from the cache exactly when now - last_fetch is below the
\* selected interval.
C21_IntervalSelection ==
    [][\A t \in SeqThreads : \A o \in Options :
          \/ ~(pc[t] = "decide" /\ ~ChangeSeen /\ CacheUsable)
          \/ LET expected ==
                     IF o.strategy = "FIXED" THEN o.min_refresh
                     ELSE IF o.strategy = "NETWORK_EVENT" THEN o.max_refresh
                     ELSE IF fast_mode_counter > 0 THEN o.fast_refresh
                     ELSE IF now[t] - last_change > OneHour
                          THEN o.max_refresh
                     ELSE o.min_refresh
             IN  /\ last_check' = [strategy |-> o.strategy,
                                   interval |-> expected]
                 /\ pc'[t] = "idle" <=> now[t] - last_fetch < expected
          \/ ~Decide(t, o, FALSE)]_vars

\* C21 witness: a check made exactly one hour after the last change, with
\* the fast mode over, selected min_refresh and went on to fetch.
C21_Witness ==
    \E t \in SeqThreads :
        /\ pc[t] = "fetch"
        /\ now[t] - last_change = OneHour
        /\ fast_mode_counter = 0
        /\ last_check.strategy \in {"ADAPTIVE", "HYBRID"}
        /\ last_check.interval = DefaultOptions.min_refresh

(* ------------------------ claims on the helpers, II --------------------- *)
\* The first position, in adapter-then-address order, that attains the
\* maximum score within the non-empty set S of scored positions.
BestAmong(ads, S) ==
    LET score(p) == ScoreByTable(ads[p[1]].addrs[p[2]])
        b == CHOOSE p \in S :
                 \A q \in S : \/ score(p) > score(q)
                              \/ score(p) = score(q) /\ Before(p, q)
    IN  Octets(ads[b[1]].addrs[b[2]])

\* C22 as stated: when up, non-loopback adapters named by preferred hold
\* addresses with a score above 0, the preferred pass returns the first
\* address attaining the highest score among the addresses of all of them.
C22_BestOverAllMatching ==
    (/\ helper = "GetInternalIPv4"
     /\ arg.preferred # NoPreferred
     /\ Scored(arg.net.adapters, arg.preferred) # {}) =>
        out.str = BestAmong(arg.net.adapters,
                            Scored(arg.net.adapters, arg.preferred))

\* C22 amended: the preferred pass returns the first address attaining the
\* highest score among the addresses of one adapter: the first, in
\* enumeration order, of the up, non-loopback adapters named by preferred
\* that holds an address with a score above 0. Later matching adapters are
\* not scanned, also when they hold an address with a higher score.
C22_FirstMatchingAdapterWins ==
    (/\ helper = "GetInternalIPv4"
     /\ arg.preferred # NoPreferred
     /\ Scored(arg.net.adapters, arg.preferred) # {}) =>
        LET S     == Scored(arg.net.adapters, arg.preferred)
            first == Least({ p[1] : p \in S })
        IN  out.str = BestAmong(arg.net.adapters,
                                { p \in S : p[1] = first })

\* C22 witness: two up adapters are named Wi-Fi, the first holds 10.0.0.9,
\* the second 192.168.1.5, and 10.0.0.9 was returned.
C22_Witness ==
    /\ helper = "GetInternalIPv4"
    /\ arg.preferred = "Wi-Fi"
    /\ Len(arg.net.adapters) = 2
    /\ arg.net.adapters[1] =
           Adapter("Wi-Fi", "{wifi}", TRUE, FALSE, << Addr(10, 0, 0, 9) >>)
    /\ arg.net.adapters[2] =
           Adapter("Wi-Fi", "{wifi}", TRUE, FALSE, << Addr(192, 168, 1, 5) >>)
    /\ out.str = << 10, 0, 0, 9 >>

\* The greatest element of a non-empty set of positions.
Greatest(S) == CHOOSE i \in S : \A j \in S : j <= i

\* The positions of s that hold neither a space nor a tab.
NonBlank(s) == { i \in 1..Len(s) : s[i] \notin { " ", "\t" } }

\* The text without its leading, and without its trailing, spaces and tabs.
WithoutLeading(s) ==
    IF NonBlank(s) = {} THEN EmptyStr
    ELSE SubSeq(s, Least(NonBlank(s)), Len(s))

WithoutTrailing(s) ==
    IF NonBlank(s) = {} THEN EmptyStr
    ELSE SubSeq(s, 1, Greatest(NonBlank(s)))

\* s ends with the text suffix.
EndsWith(s, suffix) ==
    /\ Len(suffix) <= Len(s)
    /\ SubSeq(s, Len(s) - Len(suffix) + 1, Len(s)) = suffix

\* The six suffixes, in the order they are tested.
SuffixList ==
    << << " ", "I", "n", "c", "." >>, << " ", "L", "L", "C" >>,
       << " ", "L", "t", "d", "." >>, << " ", "C", "o", "r", "p", "." >>,
       << " ", "C", "o", "r", "p", "o", "r", "a", "t", "i", "o", "n" >>,
       << " ", "S", "e", "r", "v", "i", "c", "e", "s" >> >>

\* The reference pipeline of the organization name, step by step.
PipelineNoAs(s) ==
    LET spaces == { i \in 1..Len(s) : s[i] = " " }
    IN  IF Len(s) >= 2 /\ s[1] = "A" /\ s[2] = "S" /\ spaces # {}
        THEN WithoutLeading(SubSeq(s, Least(spaces) + 1, Len(s)))
        ELSE s

PipelineNoComma(s) ==
    LET commas == { i \in 1..Len(s) : s[i] = "," }
        prefix == WithoutTrailing(SubSeq(s, 1, Least(commas) - 1))
    IN  IF commas = {} THEN s
        ELSE IF prefix = EmptyStr THEN s ELSE prefix

PipelineNoSuffix(s) ==
    LET hits == { k \in 1..Len(SuffixList) : EndsWith(s, SuffixList[k]) }
    IN  IF hits = {} THEN s
        ELSE WithoutTrailing(
                 SubSeq(s, 1, Len(s) - Len(SuffixList[Least(hits)])))

Pipeline(raw) ==
    LET r == PipelineNoSuffix(PipelineNoComma(PipelineNoAs(
                 WithoutTrailing(WithoutLeading(raw)))))
    IN  IF r = EmptyStr THEN raw ELSE r

C24_NotSingleFlight ==
    [][\A t \in Threads : \A u \in Threads \ {t} :
          (Decides(t) /\ pc[u] \in {"fetch", "fetched"} /\ ~CacheUsable) =>
              /\ pc'[t] = "fetch"
              /\ pc'[u] = pc[u]
              /\ ret'[t] = ret[t]]_vars

\* C24 witness: both callers found the cache empty and both have run the
\* WinHTTP sequence for it, and nothing is stored yet.
C24_Witness ==
    /\ \A t \in Threads : pc[t] = "fetched" /\ fetches[t] = 1
    /\ cached_result = EmptyResult
    /\ last_fetch = 0

\* C25: cached_result and last_fetch are written together, in one step of a
\* thread that holds the mutex, with the valid result and the `now` of that
\* thread's call; and every write-back replaces the pair, whatever the pair
\* was, so the call that takes the lock last for its write-back wins.
C25_PairWrittenTogether ==
    [][/\ (cached_result' # cached_result \/ last_fetch' # last_fetch) =>
              \E t \in Threads : pc[t] = "store" /\ pc'[t] = "idle"
       /\ \A t \in Threads :
              (pc[t] = "store" /\ pc'[t] # "store") =>
                  /\ mtx = t /\ mtx' = NoThread
                  /\ result[t].ip # EmptyStr
                  /\ cached_result' = result[t]
                  /\ last_fetch' = now[t]
                  /\ ret'[t] = result[t]]_vars

\* C25 witness: both callers have fetched, written back and returned, and
\* the cache holds a valid result with its stamp.
C25_Witness ==
    /\ \A t \in Threads :
           /\ pc[t] = "idle" /\ fetches[t] = 1
           /\ ret[t].ip # EmptyStr
           /\ cached_result = ret[t]
    /\ mtx = NoThread
    /\ last_fetch # 0
    /\ last_fetch < clock

C28_ValidIffStamped ==
    /\ (cached_result.ip # EmptyStr) <=> (last_fetch # 0)
    /\ [][/\ (cached_result'.ip # EmptyStr) <=> (last_fetch' # 0)
          /\ (cached_result.ip # EmptyStr) => (cached_result'.ip # EmptyStr)]_vars

\* C28 witness: the cache is valid and stamped, one caller has returned from
\* a failed fetch and the other one is in a forced or expired fetch.
C28_Witness ==
    \E t \in Threads : \E u \in Threads \ {t} :
        /\ cached_result.ip # EmptyStr
        /\ last_fetch # 0
        /\ pc[t] = "idle" /\ fetches[t] = 1 /\ ret[t].ip = EmptyStr
        /\ pc[u] = "fetched" /\ result[u].ip = EmptyStr

\* C29 as stated: last_fetch never decreases, under any interleaving of the
\* concurrent callers.
C29_StampNeverDecreases ==
    [][last_fetch' >= last_fetch]_vars

\* C29 amended: last_fetch changes only in a write-back, to the `now` the
\* writing call read at its entry, which is never ahead of the clock; it
\* decreases exactly when the writing call began before the call whose
\* result is cached, and then the cached result is replaced with it.
C29_StampIsEntryOfLastWriter ==
    [][/\ last_fetch' # last_fetch =>
              \E t \in Threads : pc[t] = "store" /\ pc'[t] = "idle"
       /\ \A t \in Threads :
              (pc[t] = "store" /\ pc'[t] # "store") =>
                  /\ last_fetch' = now[t]
                  /\ last_fetch' <= clock
                  /\ last_fetch' >= 1
                  /\ (last_fetch' < last_fetch) <=> (now[t] < last_fetch)
                  /\ cached_result' = result[t]]_vars

\* C29 witness: two calls overlapped; the one that began later has fetched,
\* stored and returned, and the one that began earlier has fetched too and
\* holds the mutex for a write-back that takes last_fetch back.
C29_Witness ==
    \E t \in Threads : \E u \in Threads \ {t} :
        /\ pc[t] = "store" /\ mtx = t
        /\ pc[u] = "idle" /\ fetches[u] = 1
        /\ ret[u].ip # EmptyStr
        /\ cached_result = ret[u]
        /\ now[t] < last_fetch

(* ------------------------ claims on the lookup, III --------------------- *)
\* C30 as stated: while cached_result is invalid every call fetches, and
\* once a call has found its selected interval elapsed and its fetch has
\* failed, every call after it fetches again until a fetch succeeds,
\* whatever the strategy and the intervals (the later call is made under
\* the strategy of the failed one).
C30_EveryLaterCallFetches ==
    [][\A t \in SeqThreads :
          /\ (Decides(t) /\ cached_result.ip = EmptyStr) => pc'[t] = "fetch"
          /\ (Decides(t) /\ expired /\ stale
                         /\ (last_check' # NoCheck =>
                                 last_check'.strategy = last_check.strategy))
                 => pc'[t] = "fetch"]_vars

\* C30 amended: a failed fetch leaves cached_result and last_fetch as they
\* were, and no call waits because of it: a call fetches whenever
\* cached_result is invalid or the interval that this call selects has
\* elapsed. After a failed fetch over an elapsed interval, a later call is
\* served from the cache only when it selects a longer interval than the
\* failed one did.
C30_NoBackoffAfterFailure ==
    [][\A t \in SeqThreads :
          /\ FailReturn(t) =>
                 /\ cached_result' = cached_result
                 /\ last_fetch' = last_fetch
          /\ (Decides(t) /\ cached_result.ip = EmptyStr) => pc'[t] = "fetch"
          /\ (Decides(t) /\ last_check' # NoCheck
                         /\ now[t] - last_fetch >= last_check'.interval)
                 => pc'[t] = "fetch"
          /\ (Decides(t) /\ expired /\ stale /\ pc'[t] # "fetch") =>
                 /\ last_check' # NoCheck
                 /\ last_check'.interval > last_check.interval
                 /\ now[t] - last_fetch < last_check'.interval]_vars

\* C30 witness: a call found its interval elapsed and its fetch failed; the
\* next call, begun at once, has found the interval elapsed again and is
\* about to fetch.
C30_Witness ==
    \E t \in SeqThreads :
        /\ pc[t] = "fetch"
        /\ after_fail[t]
        /\ stale
        /\ expired
        /\ cached_result.ip # EmptyStr
        /\ last_check # NoCheck
        /\ fetches[t] = 0

(* --------------------------- claims on the plugin ----------------------- *)
\* The tick ends: force_refresh_next_ = false is executed.
TickEnds == tick_pc = "clear" /\ tick_pc' = "idle"

\* C26 as stated: the tick that follows OnPluginCommand(2) passes
\* force_refresh = true to the resolver and clears the flag; a tick without
\* a pending command passes no true; only command 2 sets the flag.
C26_NextTickForcesResolver ==
    [][/\ (TickEnds /\ force_external_refresh) =>
              /\ resolver_calls # << >>
              /\ \A i \in DOMAIN resolver_calls : resolver_calls[i]
       /\ (TickEnds /\ ~force_external_refresh) =>
              \A i \in DOMAIN resolver_calls : ~resolver_calls[i]
       /\ TickEnds => ~force_refresh_next_'
       /\ (tick_pc = "idle" /\ tick_pc' # "idle") =>
              force_external_refresh' = force_refresh_next_
       /\ (show_internal' # show_internal \/ show_external' # show_external)
              => force_refresh_next_' = force_refresh_next_]_vars

\* C26 amended: the tick that follows OnPluginCommand(2) passes true to
\* item_.Update and clears the flag; Update hands that value to the
\* resolver, in two calls that then both fetch, only when show_external is
\* set, and makes no resolver call otherwise. A tick without a pending
\* command passes false; the flag is set by command 2 alone and cleared by
\* the end of a tick alone.
C26_RefreshIsOneShot ==
    [][/\ (tick_pc = "idle" /\ tick_pc' # "idle") =>
              /\ force_external_refresh' = force_refresh_next_
              /\ force_refresh_next_' = force_refresh_next_
       /\ TickEnds =>
              /\ ~force_refresh_next_'
              /\ resolver_calls =
                     IF show_external
                     THEN << force_external_refresh, force_external_refresh >>
                     ELSE << >>
       /\ \A t \in SeqThreads :
              (Decides(t) /\ force_external_refresh) => pc'[t] = "fetch"
       /\ (~force_refresh_next_ /\ force_refresh_next_') =>
              /\ tick_pc = "idle" /\ tick_pc' = "idle"
              /\ UNCHANGED << show_internal, show_external, lookup >>
       /\ (force_refresh_next_ /\ ~force_refresh_next_') => TickEnds
       /\ (show_internal' # show_internal \/ show_external' # show_external)
              => force_refresh_next_' = force_refresh_next_]_vars

\* C26 witness: command 2 was issued, the tick after it has passed true to
\* the resolver twice, the second call has fetched, and the flag is clear.
C26_Witness ==
    /\ tick_pc = "idle"
    /\ show_external
    /\ force_external_refresh
    /\ resolver_calls = << TRUE, TRUE >>
    /\ ~force_refresh_next_
    /\ \A t \in SeqThreads : pc[t] = "idle" /\ fetches[t] = 1

(* ------------------------ claims on the lookup, IV ---------------------- *)
\* C31: fast_mode_counter changes in two ways only. A call that detects a
\* network change sets it to the adaptive_cycles it was passed. A call that
\* reaches the cache check (not forced, no change, valid cache) under
\* ADAPTIVE or HYBRID while it is above 0 takes exactly 1 off, whether the
\* call then hits the cache or fetches. Every other call (FIXED or
\* NETWORK_EVENT, forced, without a valid cache) and every step after the
\* decision, whatever the fetch gives, leave it as it is; it is never
\* negative.
C31_CounterFrame ==
    /\ fast_mode_counter >= 0
    /\ [][\A t \in SeqThreads :
             /\ fast_mode_counter' >= 0
             /\ ~Decides(t) => fast_mode_counter' = fast_mode_counter
             /\ (Decides(t) /\ ChangeSeen) =>
                    /\ fast_mode_counter' = change_cycles'
                    /\ \E o \in Options, f \in BOOLEAN :
                           /\ Decide(t, o, f)
                           /\ fast_mode_counter' = o.adaptive_cycles
             /\ (Decides(t) /\ ~ChangeSeen) =>
                    fast_mode_counter' =
                        IF /\ last_check' # NoCheck
                           /\ last_check'.strategy \in {"ADAPTIVE", "HYBRID"}
                           /\ fast_mode_counter > 0
                        THEN fast_mode_counter - 1
                        ELSE fast_mode_counter
             /\ (Decides(t) /\ ~ChangeSeen /\ ~CacheUsable) =>
                    /\ last_check' = NoCheck
                    /\ fast_mode_counter' = fast_mode_counter
             /\ (Decides(t) /\ ~ChangeSeen /\ CacheUsable) =>
                    /\ \A o \in Options :
                           Decide(t, o, TRUE) =>
                               fast_mode_counter' = fast_mode_counter
                    /\ \A o \in Options :
                           Decide(t, o, FALSE) =>
                               /\ last_check' # NoCheck
                               /\ last_check'.strategy = o.strategy]_vars

\* C31 witness: after a change that set the counter, a call under HYBRID
\* reached the cache check, took a fast cycle and went on to fetch.
C31_Witness ==
    \E t \in SeqThreads :
        /\ pc[t] = "fetch"
        /\ last_check.strategy = "HYBRID"
        /\ last_check.interval = 1
        /\ change_cycles = MaxCycles
        /\ qual_calls >= 1
        /\ fast_mode_counter = change_cycles - qual_calls
        /\ last_change # 0

\* C32: a call that finds the snapshot empty while a non-empty one is
\* stored flags a network change and stores the empty snapshot. The next
\* call that finds a non-empty snapshot, the earlier one or another, flags
\* no change: last_change and the fast mode stay, the cache check is made
\* as without a change, and a fetch follows only from the force flag or the
\* refresh interval. So the snapshots A, empty, B give one change event, at
\* the step to empty.
C32_ChangeThroughEmpty ==
    [][\A t \in SeqThreads :
          Decides(t) =>
              LET fresh == SnapshotOf[network]
              IN  /\ (last_internal_ip # EmptyStr /\ fresh = EmptyStr) =>
                         /\ last_internal_ip' = EmptyStr
                         /\ last_change' = now[t]
                         /\ qual_calls' = 0
                         /\ last_check' = NoCheck
                         /\ pc'[t] = "fetch"
                  /\ (last_internal_ip = EmptyStr /\ fresh # EmptyStr) =>
                         /\ last_internal_ip' = fresh
                         /\ last_change' = last_change
                         /\ change_cycles' = change_cycles
                         /\ qual_calls' >= qual_calls
                         /\ fast_mode_counter' \in
                                { fast_mode_counter, fast_mode_counter - 1 }
                         /\ CacheUsable =>
                                \A o \in Options :
                                    Decide(t, o, FALSE) =>
                                        /\ last_check' # NoCheck
                                        /\ pc'[t] = "fetch" <=>
                                               now[t] - last_fetch >=
                                                   last_check'.interval]_vars

\* C32 witness: a change to the empty snapshot was flagged and the empty
\* snapshot stored; the adapters have an address again (the cache is
\* valid), and the next call is at its decision.
C32_Witness ==
    \E t \in SeqThreads :
        /\ pc[t] = "decide"
        /\ last_internal_ip = EmptyStr
        /\ last_change # 0
        /\ SnapshotOf[network] # EmptyStr
        /\ CacheUsable
        /\ now[t] > last_change

(* ------------------------- claims on the plugin, II --------------------- *)
\* The options of the tick as IpPluginItem::Update reads them.
TickOptions ==
    [show_internal |-> show_internal, show_external |-> show_external,
     separator |-> EmptyStr]

C34_SecondCallHitsCache ==
    [][\A t \in SeqThreads :
          /\ (TickEnds /\ show_external) =>
                 /\ resolver_calls = << force_external_refresh,
                                        force_external_refresh >>
                 /\ Len(tick_results) = 2
          /\ (Decides(t) /\ tick_pc = "item_call"
                         /\ tick_results =
                                << [why |-> "expired", end |-> "stored"] >>
                         /\ now[t] = last_fetch)
                 => pc'[t] = "idle"
          /\ (TickEnds /\ force_external_refresh) =>
                 \A i \in DOMAIN tick_results : tick_results[i].end # "hit"
          /\ TickEnds => fast_mode_counter >= tick_counter - 2]_vars

\* C34 amended: as above, but the second call is served from the cache
\* only if it detects no network change and the interval it selects has
\* not elapsed since the entry of the first call; otherwise it fetches
\* again, and the tick can make two successful fetches.
C34_TwoCallsPerTick ==
    [][\A t \in SeqThreads :
          /\ (TickEnds /\ show_external) =>
                 /\ resolver_calls = << force_external_refresh,
                                        force_external_refresh >>
                 /\ Len(tick_results) = 2
          /\ (TickEnds /\ ~show_external) => tick_results = << >>
          /\ (Decides(t) /\ tick_pc = "text_call") =>
                 /\ Decide(t, TextOptions, force_external_refresh)
                 /\ TextOptions.strategy = "HYBRID"
          /\ (Decides(t) /\ tick_pc = "item_call") =>
                 /\ Decide(t, ItemOptions, force_external_refresh)
                 /\ ItemOptions.strategy =
                        IF enable_smart_cache THEN "HYBRID" ELSE "FIXED"
          /\ (Decides(t) /\ tick_pc = "item_call"
                         /\ tick_results =
                                << [why |-> "expired", end |-> "stored"] >>)
                 => (pc'[t] = "idle" <=>
                         /\ ~ChangeSeen
                         /\ now[t] - last_fetch <
                                SelectInterval(ItemOptions, fast_mode_counter,
                                               now[t], last_change))
          /\ (TickEnds /\ force_external_refresh) =>
                 \A i \in DOMAIN tick_results :
                     /\ tick_results[i].why \in {"forced", "changed"}
                     /\ tick_results[i].end \in {"stored", "failed"}
          /\ TickEnds =>
                 /\ fast_mode_counter >= tick_counter - 2
                 /\ (\A i \in DOMAIN tick_results :
                         tick_results[i].why # "changed")
                        => fast_mode_counter <= tick_counter]_vars

\* C34 witness: in a tick that is not forced the first call found the fast
\* interval elapsed, fetched and stored, the second call was served from
\* the cache just written, and the two calls took two fast-mode cycles.
C34_Witness ==
    /\ tick_pc = "clear"
    /\ ~force_external_refresh
    /\ tick_results = << [why |-> "expired", end |-> "stored"],
                         [why |-> "fresh", end |-> "hit"] >>
    /\ fast_mode_counter = tick_counter - 2

\* A tick that is not forced made two successful fetches: the second call
\* detected a network change.
C34_TwoStoresInOneTick ==
    /\ tick_pc = "clear"
    /\ ~force_external_refresh
    /\ tick_results = << [why |-> "expired", end |-> "stored"],
                         [why |-> "changed", end |-> "stored"] >>

====
